---- MODULE Spec2Model ----
(***************************************************************************)
(* A model of fast-app's health subsystem: the health.Manager (checker     *)
(* registry, result cache, readiness flag, concurrent CheckAll), the       *)
(* aggregation strategies of packages health and strategies, and the       *)
(* readiness handlers of service.ObservabilityService and server.Server.   *)
(***************************************************************************)
EXTENDS Integers, Sequences, FiniteSets, TLC

\* ------------------------------------------------------------------ bounds

\* Checker names that may be registered in the Manager.
Names == {"db", "api"}
\* Distinct HealthChecker objects (identity matters when a name is overwritten).
MaxCheckerId == 1
CheckerIds == 1..MaxCheckerId
\* Distinct HealthChecker objects in the runs that register one name twice.
MaxRegistryId == 2
RegistryIds == 1..MaxRegistryId
\* Goroutines that call into the Manager (probe requests, direct callers).
Callers == {"c1", "c2"}
\* The clock runs from 0 to MaxTime ticks.
MaxTime == 3
\* The configured ManagerConfig.CacheTTL, in ticks.
CacheTTL == 2
\* Names of the result maps handed to the aggregation strategies.
MaxResults == 3
AggNames == 1..MaxResults

\* --------------------------------------------------------- health statuses

StatusHealthy == "healthy"
StatusUnhealthy == "unhealthy"
StatusDegraded == "degraded"
Statuses == {StatusHealthy, StatusDegraded, StatusUnhealthy}

Optional == 0
Important == 1
Critical == 2
Importances == {Optional, Important, Critical}

\* ------------------------------------------------------------------ Go maps

EmptyMap == [x \in {} |-> 0]
MapPut(m, k, v) == [x \in (DOMAIN m) \cup {k} |-> IF x = k THEN v ELSE m[x]]
MapDelete(m, k) == [x \in (DOMAIN m) \ {k} |-> m[x]]
\* Every map from a subset of keys to vals.
Maps(keys, vals) == UNION {[s -> vals] : s \in SUBSET keys}
\* Every order in which `range` may visit the keys of m.
IterOrders(m) ==
    LET n == Cardinality(DOMAIN m)
    IN {s \in [1..n -> DOMAIN m] : \A i, j \in 1..n : s[i] = s[j] => i = j}
\* The (name, status) pairs of m as visited in order s.
Visit(m, s) == [i \in 1..Len(s) |-> [name |-> s[i], status |-> m[s[i]]]]

\* --------------------------------------------------- aggregation strategies

RECURSIVE HealthAllHealthyLoop(_, _, _)
HealthAllHealthyLoop(rs, i, hasDegraded) ==
    IF i > Len(rs)
    THEN (IF hasDegraded THEN StatusDegraded ELSE StatusHealthy)
    ELSE IF rs[i].status = StatusUnhealthy THEN StatusUnhealthy
    ELSE HealthAllHealthyLoop(rs, i + 1, hasDegraded \/ rs[i].status = StatusDegraded)

\* health.AllHealthyStrategy.Aggregate over the results in iteration order rs.
HealthAllHealthyAggregate(rs) ==
    IF Len(rs) = 0 THEN StatusHealthy ELSE HealthAllHealthyLoop(rs, 1, FALSE)

RECURSIVE StrategiesAllHealthyLoop(_, _)
StrategiesAllHealthyLoop(rs, i) ==
    IF i > Len(rs) THEN StatusHealthy
    ELSE IF rs[i].status = StatusUnhealthy THEN StatusUnhealthy
    ELSE IF rs[i].status = StatusDegraded THEN StatusDegraded
    ELSE StrategiesAllHealthyLoop(rs, i + 1)

\* strategies.AllHealthyStrategy.Aggregate: returns at the first result that
\* is not healthy.
StrategiesAllHealthyAggregate(rs) ==
    IF Len(rs) = 0 THEN StatusHealthy ELSE StrategiesAllHealthyLoop(rs, 1)

RECURSIVE CountStatus(_, _, _)
CountStatus(rs, i, st) ==
    IF i > Len(rs) THEN 0
    ELSE (IF rs[i].status = st THEN 1 ELSE 0) + CountStatus(rs, i + 1, st)

\* A plausible slip: half of the results count as a majority.
MajorityThresholdHalf(total) == total \div 2

MajorityThreshold(total) == total \div 2 + 1

\* A plausible slip: the empty map is not special-cased.
MajorityHealthyAggregateNoEmptyCase(rs) ==
    LET healthyCount == CountStatus(rs, 1, StatusHealthy)
        unhealthyCount == CountStatus(rs, 1, StatusUnhealthy)
        majority == MajorityThreshold(Len(rs))
    IN IF unhealthyCount >= majority THEN StatusUnhealthy
       ELSE IF healthyCount >= majority THEN StatusHealthy
       ELSE StatusDegraded

\* strategies.MajorityHealthyStrategy.Aggregate.
MajorityHealthyAggregate(rs) ==
    IF Len(rs) = 0 THEN StatusHealthy
    ELSE LET healthyCount == CountStatus(rs, 1, StatusHealthy)
             unhealthyCount == CountStatus(rs, 1, StatusUnhealthy)
             majority == MajorityThreshold(Len(rs))
         IN IF unhealthyCount >= majority THEN StatusUnhealthy
            ELSE IF healthyCount >= majority THEN StatusHealthy
            ELSE StatusDegraded

\* A plausible slip: a component without a weight entry counts as Optional.
ImportanceOfDefaultOptional(weights, name) ==
    IF name \in DOMAIN weights THEN weights[name] ELSE Optional

\* The importance WeightedStrategy.Aggregate gives a component.
ImportanceOf(weights, name) ==
    IF name \in DOMAIN weights THEN weights[name] ELSE Important

RECURSIVE WeightedLoop(_, _, _, _)
\* flags = <<hasCriticalUnhealthy, hasImportantUnhealthy, hasDegraded>>
WeightedLoop(weights, rs, i, flags) ==
    IF i > Len(rs) THEN flags
    ELSE LET importance == ImportanceOf(weights, rs[i].name)
             st == rs[i].status
         IN WeightedLoop(weights, rs, i + 1,
               << flags[1] \/ (st = StatusUnhealthy /\ importance = Critical),
                  flags[2] \/ (st = StatusUnhealthy /\ importance = Important),
                  flags[3] \/ st = StatusDegraded >>)

\* strategies.WeightedStrategy.Aggregate.
WeightedAggregate(weights, rs) ==
    IF Len(rs) = 0 THEN StatusHealthy
    ELSE LET flags == WeightedLoop(weights, rs, 1, <<FALSE, FALSE, FALSE>>)
         IN IF flags[1] THEN StatusUnhealthy
            ELSE IF flags[2] THEN StatusDegraded
            ELSE IF flags[3] THEN StatusDegraded
            ELSE StatusHealthy

\* The strategies a Manager can be constructed with.
StrategyKinds == {"health.AllHealthy", "strategies.AllHealthy", "Majority", "Weighted"}

\* AggregationStrategy.Aggregate, dispatched on the configured strategy.
Aggregate(strat, rs) ==
    CASE strat.kind = "health.AllHealthy" -> HealthAllHealthyAggregate(rs)
      [] strat.kind = "strategies.AllHealthy" -> StrategiesAllHealthyAggregate(rs)
      [] strat.kind = "Majority" -> MajorityHealthyAggregate(rs)
      [] strat.kind = "Weighted" -> WeightedAggregate(strat.weights, rs)

\* NewManager's default strategy.
DefaultStrategy == [kind |-> "health.AllHealthy", weights |-> EmptyMap]

\* app.go's exit codes, and the code the Go runtime exits with when a panic
\* is recovered nowhere.
ExitCodeOk == 0
ExitCodeApplicationErr == 1
ExitCodeWatchdog == 1
ExitCodePanic == 2
\* The process has not exited.
NoExitCode == 0 - 1

\* app.go's durations, in seconds.
DefaultShutdownTimeout == 5
WatchdogMargin == 5
\* watchdogTimeout: the default shutdown timeout plus the margin.
WatchdogTimeout == DefaultShutdownTimeout + WatchdogMargin

\* ------------------------------------------------------------------- state

VARIABLES
    checkers,    \* Manager.checkers: name -> checker id
    cache,       \* Manager.cache: name -> [status, duration, at]; `at` is the
                 \* tick at which the entry was stored (not a field of the code)
    ready,       \* Manager.ready
    strategy,    \* Manager.strategy
    now,         \* the wall clock, in ticks
    mu,          \* Manager.mu: who holds it between steps, and in which mode
    readyMu,     \* Manager.readyMu: who holds it between steps
    pc,          \* per caller: "idle", "running" (inside CheckAll), "done"
    kind,        \* per caller: the operation it is executing
    isReady,     \* per caller: the value a readiness handler read from IsReady()
    snap,        \* per caller: CheckAll's local copy of the checker map
    tpc,         \* per caller: name -> position of that checker's goroutine
    tres,        \* per caller: name -> result checker.Check returned, not yet cached
    results,     \* per caller: CheckAll's results map, name -> status
    out,         \* per caller: what the finished operation returned or wrote
    op,          \* the operation the last step belongs to
    aggResults,  \* the result map handed to the strategies, name -> status
    aggWeights,  \* WeightedStrategy.Weights
    aggOut,      \* what each strategy returned for aggResults, once applied
    checks,      \* per caller: the results map a detail handler got from its
                 \* own CheckAll call, in a sequence that is empty until that
                 \* call has returned
    proc,        \* the process: "running", or how it ended
    exitCode,    \* the code the process ended with, -1 while it runs
    runner,      \* App.Start: service -> position of its runner task
    waiter,      \* App.Start: service -> position of its shutdown-waiter task
    ctxDone,     \* App.Start: the group's context is cancelled
    groupErr,    \* errgroup.Group: a task has returned a non-nil error
    groupFirst,  \* errgroup.Group.err: the error Wait will return
    runners,     \* App.runners: the services given to Add, in call order
    pending,     \* RegisterCheckers: the checkers its loop has yet to register
    obsServer,   \* ObservabilityService.server: "nil", "serving" or "closed"
    checkerNames,  \* what the last GetCheckerNames call returned
    stopAllOnErr,     \* options.stopAllOnErr
    shutdownCtx, \* per service, the context its waiter made for Shutdown
    shutdownTimeout,  \* options.shutdownTimeout, in seconds
    sinceCancel, \* seconds since the watchdog saw the context cancelled
    ccPc,        \* CustomCheck.Check: position of the calling goroutine
    ccWorker,    \* CustomCheck.Check: position of the worker goroutine
    ccResult,    \* CustomCheck.Check: the worker's local `result`
    ccChan,      \* CustomCheck.Check: resultChan, a buffer of one result
    ccCtx,       \* CustomCheck.Check: checkCtx.Err(), "live" while it is nil
    ccLog,       \* CustomCheck.Check: what has happened so far, in order
                 \* (not a field of the code)
    ccOut        \* CustomCheck.Check: the result returned to the caller

mgrVars == <<checkers, cache, ready, strategy, now, mu, readyMu>>
callVars == <<pc, kind, isReady, snap, tpc, tres, results, out, checks>>
aggVars == <<aggResults, aggWeights, aggOut>>
appVars == <<proc, exitCode, runner, waiter, ctxDone, groupErr, groupFirst,
             stopAllOnErr, shutdownCtx, shutdownTimeout, sinceCancel>>
\* The list Add builds and Start reads.
wiringVars == <<runners, pending>>
\* The field ObservabilityService.Run sets and Shutdown reads.
obsVars == <<obsServer>>
\* What a caller got from GetCheckerNames.
queryVars == <<checkerNames>>
ccVars == <<ccPc, ccWorker, ccResult, ccChan, ccCtx, ccLog, ccOut>>
\* What the Manager's operations and callers never touch.
apartVars == <<aggVars, appVars, ccVars, wiringVars, queryVars, obsVars>>
vars == <<checkers, cache, ready, strategy, now, mu, readyMu, pc, kind, isReady, snap, tpc,
          tres, results, out, op, aggResults, aggWeights, aggOut, checks,
          proc, exitCode, runner, waiter, ctxDone, groupErr, groupFirst,
          stopAllOnErr, shutdownCtx, shutdownTimeout, sinceCancel, runners, pending, obsServer, checkerNames,
          ccPc, ccWorker, ccResult, ccChan, ccCtx, ccLog, ccOut>>

\* The results a checker's Check may return: any status, and a Duration field
\* the checker filled in itself (checks.HTTPCheck and checks.DatabaseCheck
\* report the time the probe took; a mock leaves it zero).
CheckerDurations == {0, CacheTTL}
CheckerResults == [status : Statuses, duration : CheckerDurations]

NoOut == [status |-> "none", ready |-> FALSE, manager_ready |-> FALSE, code |-> 0]

\* A detail handler has not got its results map yet.
NoChecks == << >>

\* What callers run: the Manager's own operations and the readiness handlers.
PlainKinds == {"CheckAll", "GetOverallStatus"}
ReadinessKinds == {"ObservabilityService.handleReadiness", "Server.handleReadiness"}
\* The detail handlers: CheckAll for the body, then GetOverallStatus.
DetailKinds == {"ObservabilityService.handleHealthChecks", "Server.handleChecks"}

\* NewManager: empty maps, ready by default.
InitManager ==
    /\ checkers = EmptyMap
    /\ cache = EmptyMap
    /\ ready = TRUE
    /\ now = 0
    /\ mu = {}
    /\ readyMu = {}

InitCallers ==
    /\ pc = [c \in Callers |-> "idle"]
    /\ kind = [c \in Callers |-> "none"]
    /\ isReady = [c \in Callers |-> TRUE]
    /\ snap = [c \in Callers |-> EmptyMap]
    /\ tpc = [c \in Callers |-> EmptyMap]
    /\ tres = [c \in Callers |-> EmptyMap]
    /\ results = [c \in Callers |-> EmptyMap]
    /\ out = [c \in Callers |-> NoOut]
    /\ checks = [c \in Callers |-> NoChecks]
    /\ op = [name |-> "init", arg |-> "none"]

\* The strategies are not exercised on their own in the Manager's runs.
InitAggIdle ==
    /\ aggResults = EmptyMap
    /\ aggWeights = EmptyMap
    /\ aggOut = EmptyMap
    /\ checkerNames = << >>

\* A waiter has not made the context for Shutdown yet.
NoShutdownCtx == [parent |-> "none", at |-> 0]

\* errgroup.Group.err while it is nil.
NoError == [task |-> "none", of |-> "none", err |-> "nil"]

\* No application has been started around the Manager.
InitAppIdle ==
    /\ proc = "running"
    /\ exitCode = NoExitCode
    /\ runner = EmptyMap
    /\ waiter = EmptyMap
    /\ ctxDone = FALSE
    /\ groupErr = FALSE
    /\ groupFirst = NoError
    /\ shutdownCtx = EmptyMap
    /\ obsServer = "nil"
    /\ runners = << >>
    /\ pending = << >>
    /\ stopAllOnErr = TRUE
    /\ shutdownTimeout = DefaultShutdownTimeout
    /\ sinceCancel = 0

\* No HealthResult yet.
NoResult == [status |-> "none", key |-> "none"]

\* No checks.CustomCheck is being called.
InitCustomIdle ==
    /\ ccPc = "idle"
    /\ ccWorker = "none"
    /\ ccResult = NoResult
    /\ ccChan = << >>
    /\ ccCtx = "live"
    /\ ccLog = << >>
    /\ ccOut = NoResult

\* ------------------------------------------------------- Manager operations

\* sync.RWMutex: Lock() goes through when nobody holds the mutex, RLock()
\* when no writer does.  `held` is the set of [g, mode] holding it.
CanLock(held) == held = {}
CanRLock(held) == \A h \in held : h.mode = "r"

\* A plausible slip: checkWithCache keeps its read lock while it calls Check.
HeldAcrossCheckReadLock(c, n) == {[g |-> <<c, n>>, mode |-> "r"]}

\* What checkWithCache still holds of Manager.mu when it calls
\* checker.Check: nothing, RUnlock comes before the call.
HeldAcrossCheck(c, n) == {}

\* What a readiness handler still holds of Manager.readyMu after IsReady()
\* has returned: nothing, the deferred RUnlock has run.
HeldAfterIsReady(c) == {}

\* A plausible slip: a name already registered keeps its checker.
RegisteredKeepingFirst(m, n, k) == IF n \in DOMAIN m THEN m ELSE MapPut(m, n, k)

\* m.checkers[name] = checker: an existing name is overwritten (with a
\* warning in the log).
Registered(m, n, k) == MapPut(m, n, k)

\* Manager.RegisterChecker: insert by name, overwriting.
RegisterChecker(n, k) ==
    /\ CanLock(mu)
    /\ checkers' = Registered(checkers, n, k)
    /\ UNCHANGED <<cache, ready, strategy, now, mu, readyMu>>
    /\ UNCHANGED callVars
    /\ UNCHANGED apartVars

\* Manager.UnregisterChecker: delete from both maps.
UnregisterChecker(n) ==
    /\ CanLock(mu)
    /\ checkers' = MapDelete(checkers, n)
    /\ cache' = MapDelete(cache, n)
    /\ UNCHANGED <<ready, strategy, now, mu, readyMu>>
    /\ UNCHANGED callVars
    /\ UNCHANGED apartVars

\* A plausible slip: ClearCache drops the expired results only.
ClearCacheKeepingFresh ==
    /\ CanLock(mu)
    /\ cache' = [n \in {x \in DOMAIN cache : cache[x].duration < CacheTTL} |-> cache[n]]
    /\ UNCHANGED <<checkers, ready, strategy, now, mu, readyMu>>
    /\ UNCHANGED callVars
    /\ UNCHANGED apartVars

\* Manager.ClearCache: a fresh, empty cache map.
ClearCache ==
    /\ CanLock(mu)
    /\ cache' = EmptyMap
    /\ UNCHANGED <<checkers, ready, strategy, now, mu, readyMu>>
    /\ UNCHANGED callVars
    /\ UNCHANGED apartVars

\* A plausible slip: going not-ready also drops the cached results.
SetReadyDroppingCache(b) ==
    /\ CanLock(readyMu)
    /\ ready' = b
    /\ cache' = IF b THEN cache ELSE EmptyMap
    /\ UNCHANGED <<checkers, strategy, now, mu, readyMu>>
    /\ UNCHANGED callVars
    /\ UNCHANGED apartVars

\* Manager.SetReady.
SetReady(b) ==
    /\ CanLock(readyMu)
    /\ ready' = (IF ready # b THEN b ELSE ready)
    /\ UNCHANGED <<checkers, cache, strategy, now, mu, readyMu>>
    /\ UNCHANGED callVars
    /\ UNCHANGED apartVars

\* Time passes.
Tick ==
    /\ now < MaxTime
    /\ now' = now + 1
    /\ UNCHANGED <<checkers, cache, ready, strategy, mu, readyMu>>
    /\ UNCHANGED callVars
    /\ UNCHANGED apartVars

\* ----------------------------------------------------------------- CheckAll

\* time.Since(time.Now().Add(-d)): the two clock readings are adjacent, so the
\* "age" checkWithCache computes is the Duration field of the cached result.
ComputedAge(d) == (now - (now - d))

\* checkWithCache's test for answering from the cache.
CacheHit(n) == n \in DOMAIN cache /\ ComputedAge(cache[n].duration) < CacheTTL

\* CheckAll's entry: copy the checker map under the read lock, then start one
\* goroutine per copied checker.  A readiness handler reads IsReady() first.
CheckAllBegin(c, k) ==
    /\ pc[c] = "idle"
    /\ k \in ReadinessKinds => CanRLock(readyMu)
    /\ CanRLock(mu)
    /\ pc' = [pc EXCEPT ![c] = "running"]
    /\ kind' = [kind EXCEPT ![c] = k]
    /\ isReady' = [isReady EXCEPT ![c] = IF k \in ReadinessKinds THEN ready ELSE TRUE]
    /\ snap' = [snap EXCEPT ![c] = checkers]
    /\ tpc' = [tpc EXCEPT ![c] = [n \in DOMAIN checkers |-> "start"]]
    /\ results' = [results EXCEPT ![c] = EmptyMap]
    /\ readyMu' = readyMu \cup (IF k \in ReadinessKinds THEN HeldAfterIsReady(c) ELSE {})
    /\ UNCHANGED <<tres, out, checks>>
    /\ UNCHANGED <<checkers, cache, ready, strategy, now, mu>>
    /\ UNCHANGED apartVars

\* A checker goroutine reaches checkWithCache: a cache hit ends it with the
\* cached result, a miss enters checker.Check.
TaskLookup(c, n) ==
    /\ pc[c] = "running"
    /\ n \in DOMAIN tpc[c]
    /\ tpc[c][n] = "start"
    /\ CanRLock(mu)
    /\ IF CacheHit(n)
       THEN /\ tpc' = [tpc EXCEPT ![c][n] = "done"]
            /\ results' = [results EXCEPT ![c] = MapPut(results[c], n, cache[n].status)]
            /\ UNCHANGED mu
       ELSE /\ tpc' = [tpc EXCEPT ![c][n] = "checking"]
            /\ mu' = mu \cup HeldAcrossCheck(c, n)
            /\ UNCHANGED results
    /\ UNCHANGED <<pc, kind, isReady, snap, tres, out, checks>>
    /\ UNCHANGED <<checkers, cache, ready, strategy, now, readyMu>>
    /\ UNCHANGED apartVars

\* checker.Check returns r; no lock is held.
TaskCheckReturn(c, n, r) ==
    /\ pc[c] = "running"
    /\ n \in DOMAIN tpc[c]
    /\ tpc[c][n] = "checking"
    /\ tpc' = [tpc EXCEPT ![c][n] = "store"]
    /\ tres' = [tres EXCEPT ![c] = MapPut(tres[c], n, r)]
    /\ UNCHANGED <<pc, kind, isReady, snap, results, out, checks>>
    /\ UNCHANGED mgrVars
    /\ UNCHANGED apartVars

\* checker.Check panics in the goroutine CheckAll started for it: nothing on
\* that goroutine's stack recovers (CheckAll defers wg.Done only, and
\* health.customCheck.Check calls the function directly), so the Go runtime
\* ends the process.
TaskCheckPanic(c, n) ==
    /\ pc[c] = "running"
    /\ n \in DOMAIN tpc[c]
    /\ tpc[c][n] = "checking"
    /\ proc' = "panic"
    /\ exitCode' = ExitCodePanic
    /\ UNCHANGED <<runner, waiter, ctxDone, groupErr, groupFirst, stopAllOnErr,
                   shutdownCtx, shutdownTimeout, sinceCancel>>
    /\ UNCHANGED mgrVars
    /\ UNCHANGED callVars
    /\ UNCHANGED aggVars
    /\ UNCHANGED ccVars
    /\ UNCHANGED wiringVars
    /\ UNCHANGED queryVars
    /\ UNCHANGED obsVars

\* The goroutine stores the fresh result in the cache under the write lock,
\* puts it into the results map and finishes.
TaskStore(c, n) ==
    /\ pc[c] = "running"
    /\ n \in DOMAIN tpc[c]
    /\ tpc[c][n] = "store"
    /\ CanLock(mu \ HeldAcrossCheck(c, n))
    /\ mu' = mu \ HeldAcrossCheck(c, n)
    /\ cache' = MapPut(cache, n, [status |-> tres[c][n].status,
                                  duration |-> tres[c][n].duration,
                                  at |-> now])
    /\ results' = [results EXCEPT ![c] = MapPut(results[c], n, tres[c][n].status)]
    /\ tres' = [tres EXCEPT ![c] = MapDelete(tres[c], n)]
    /\ tpc' = [tpc EXCEPT ![c][n] = "done"]
    /\ UNCHANGED <<pc, kind, isReady, snap, out, checks>>
    /\ UNCHANGED <<checkers, ready, strategy, now, readyMu>>
    /\ UNCHANGED apartVars

\* A plausible slip: CheckAll returns as soon as one goroutine has finished.
SomeTaskDone(c) == \E n \in DOMAIN tpc[c] : tpc[c][n] = "done"

\* wg.Wait(): every goroutine CheckAll started has finished.
AllTasksDone(c) == \A n \in DOMAIN tpc[c] : tpc[c][n] = "done"

\* A plausible slip: the status code follows the checks alone.
ObsReadinessResponseCodeFromChecks(mgrReady, overall) ==
    [status |-> overall,
     ready |-> (mgrReady /\ overall = StatusHealthy),
     manager_ready |-> mgrReady,
     code |-> IF overall # StatusHealthy THEN 503 ELSE 200]

\* ObservabilityService.handleReadiness: the response and the status code.
ObsReadinessResponse(mgrReady, overall) ==
    [status |-> overall,
     ready |-> (mgrReady /\ overall = StatusHealthy),
     manager_ready |-> mgrReady,
     code |-> IF ~mgrReady \/ overall # StatusHealthy THEN 503 ELSE 200]

\* server.Server.handleReadiness: the response and the status code.
ServerReadinessResponse(mgrReady, overall) ==
    LET rdy == mgrReady /\ overall # StatusUnhealthy
    IN [status |-> overall,
        ready |-> rdy,
        manager_ready |-> mgrReady,
        code |-> IF rdy THEN 200 ELSE 503]

\* ObservabilityService.handleHealthChecks: the response and the status code.
ObsDetailResponse(mgrReady, overall) ==
    [NoOut EXCEPT !.status = overall,
                  !.ready = mgrReady,
                  !.code = IF overall # StatusHealthy THEN 503 ELSE 200]

\* server.Server.handleChecks: the response and the status code.
ServerDetailResponse(mgrReady, overall) ==
    [NoOut EXCEPT !.status = overall,
                  !.ready = mgrReady,
                  !.code = CASE overall = StatusHealthy -> 200
                             [] overall = StatusDegraded -> 200
                             [] overall = StatusUnhealthy -> 503
                             [] OTHER -> 500]

\* What the operation of kind k yields once CheckAll has returned `res`,
\* visited by the strategy in order s.
Outcome(k, mgrReady, res, s) ==
    LET overall == Aggregate(strategy, Visit(res, s))
    IN CASE k = "CheckAll" -> NoOut
         [] k = "GetOverallStatus" -> [NoOut EXCEPT !.status = overall]
         [] k = "ObservabilityService.handleReadiness" ->
               ObsReadinessResponse(mgrReady, overall)
         [] k = "Server.handleReadiness" ->
               ServerReadinessResponse(mgrReady, overall)
         [] k = "ObservabilityService.handleHealthChecks" ->
               ObsDetailResponse(mgrReady, overall)
         [] k = "Server.handleChecks" ->
               ServerDetailResponse(mgrReady, overall)

\* A detail handler's own CheckAll has returned: the handler keeps the map for
\* the response body and calls GetOverallStatus, which enters CheckAll anew.
DetailSecondCall(c) ==
    /\ pc[c] = "running"
    /\ kind[c] \in DetailKinds
    /\ checks[c] = NoChecks
    /\ AllTasksDone(c)
    /\ CanRLock(mu)
    /\ checks' = [checks EXCEPT ![c] = <<results[c]>>]
    /\ snap' = [snap EXCEPT ![c] = checkers]
    /\ tpc' = [tpc EXCEPT ![c] = [n \in DOMAIN checkers |-> "start"]]
    /\ results' = [results EXCEPT ![c] = EmptyMap]
    /\ UNCHANGED <<pc, kind, isReady, tres, out>>
    /\ UNCHANGED mgrVars
    /\ UNCHANGED apartVars

\* CheckAll returns after wg.Wait(); GetOverallStatus aggregates the results,
\* a readiness handler builds its response from them and from the flag it read
\* first, a detail handler from them and from IsReady() as it is now.
CheckAllReturn(c) ==
    /\ pc[c] = "running"
    /\ AllTasksDone(c)
    /\ kind[c] \in DetailKinds => checks[c] # NoChecks
    /\ pc' = [pc EXCEPT ![c] = "done"]
    /\ \E s \in IterOrders(results[c]) :
          out' = [out EXCEPT ![c] =
                    Outcome(kind[c],
                            IF kind[c] \in DetailKinds THEN ready ELSE isReady[c],
                            results[c], s)]
    /\ kind[c] \in DetailKinds => CanRLock(readyMu)
    /\ readyMu' = readyMu \ HeldAfterIsReady(c)
    /\ UNCHANGED <<kind, isReady, snap, tpc, tres, results, checks>>
    /\ UNCHANGED <<checkers, cache, ready, strategy, now, mu>>
    /\ UNCHANGED apartVars

\* The caller has consumed what the operation returned.
CallerReset(c) ==
    /\ pc[c] = "done"
    /\ pc' = [pc EXCEPT ![c] = "idle"]
    /\ kind' = [kind EXCEPT ![c] = "none"]
    /\ isReady' = [isReady EXCEPT ![c] = TRUE]
    /\ snap' = [snap EXCEPT ![c] = EmptyMap]
    /\ tpc' = [tpc EXCEPT ![c] = EmptyMap]
    /\ tres' = [tres EXCEPT ![c] = EmptyMap]
    /\ results' = [results EXCEPT ![c] = EmptyMap]
    /\ out' = [out EXCEPT ![c] = NoOut]
    /\ checks' = [checks EXCEPT ![c] = NoChecks]
    /\ UNCHANGED mgrVars
    /\ UNCHANGED apartVars

\* The label of a step.
Op(name, arg) == op' = [name |-> name, arg |-> arg]

\* ------------------------------------------- Spec: concurrent CheckAll calls

Init ==
    /\ InitManager
    /\ strategy = DefaultStrategy
    /\ InitCallers
    /\ InitAggIdle
    /\ InitAppIdle
    /\ InitCustomIdle

\* The results checkers return in the concurrent runs: which status a result
\* carries plays no part in how CheckAll fans out and collects.
ConcResults == [status : {StatusHealthy}, duration : {0}]

Next ==
    \/ \E n \in Names, k \in CheckerIds : RegisterChecker(n, k) /\ Op("mgr", "none")
    \/ \E n \in Names : UnregisterChecker(n) /\ Op("mgr", "none")
    \/ ClearCache /\ Op("mgr", "none")
    \/ \E c \in Callers : CheckAllBegin(c, "CheckAll") /\ Op("call", "none")
    \/ \E c \in Callers, n \in Names : TaskLookup(c, n) /\ Op("call", "none")
    \/ \E c \in Callers, n \in Names, r \in ConcResults :
          TaskCheckReturn(c, n, r) /\ Op("call", "none")
    \/ \E c \in Callers, n \in Names : TaskStore(c, n) /\ Op("call", "none")
    \/ \E c \in Callers : CheckAllReturn(c) /\ Op("call", "none")
    \/ \E c \in Callers : CallerReset(c) /\ Op("call", "none")

Spec == Init /\ [][Next]_vars

\* ------------------------------------------- SpecSeq: one call after another

\* The results checkers return in the sequential runs.
SeqResults == [status : {StatusHealthy, StatusUnhealthy}, duration : CheckerDurations]

\* The caller of the sequential runs: its next CheckAll starts after the
\* previous one has returned.
SeqCaller == "c1"

NextSeq ==
    \/ \E n \in Names, k \in CheckerIds : RegisterChecker(n, k) /\ Op("mgr", "none")
    \/ \E n \in Names : UnregisterChecker(n) /\ Op("mgr", "none")
    \/ ClearCache /\ Op("mgr", "none")
    \/ Tick /\ Op("tick", "none")
    \/ CheckAllBegin(SeqCaller, "CheckAll") /\ Op("call", "none")
    \/ \E n \in Names : TaskLookup(SeqCaller, n) /\ Op("call", "none")
    \/ \E n \in Names, r \in SeqResults :
          TaskCheckReturn(SeqCaller, n, r) /\ Op("call", "none")
    \/ \E n \in Names : TaskStore(SeqCaller, n) /\ Op("call", "none")
    \/ CheckAllReturn(SeqCaller) /\ Op("call", "none")
    \/ CallerReset(SeqCaller) /\ Op("call", "none")

SpecSeq == Init /\ [][NextSeq]_vars

\* --------------------------------- SpecHttp: probes against a live Manager

\* The results checkers return to the probes.
HttpResults == [status : Statuses, duration : {0}]

\* The goroutine serving the probe requests.
HttpCaller == "c1"

NextHttp ==
    \/ \E n \in Names, k \in CheckerIds : RegisterChecker(n, k) /\ Op("other", "none")
    \/ \E n \in Names : UnregisterChecker(n) /\ Op("other", "none")
    \/ ClearCache /\ Op("other", "none")
    \/ \E b \in BOOLEAN : SetReady(b) /\ Op("SetReady", b)
    \/ \E k \in PlainKinds \cup ReadinessKinds :
          CheckAllBegin(HttpCaller, k) /\ Op("other", "none")
    \/ \E n \in Names : TaskLookup(HttpCaller, n) /\ Op("other", "none")
    \/ \E n \in Names, r \in HttpResults :
          TaskCheckReturn(HttpCaller, n, r) /\ Op("other", "none")
    \/ \E n \in Names : TaskStore(HttpCaller, n) /\ Op("other", "none")
    \/ CheckAllReturn(HttpCaller) /\ Op("other", "none")
    \/ CallerReset(HttpCaller) /\ Op("other", "none")

SpecHttp == Init /\ [][NextHttp]_vars

\* ----------------------------- SpecDetail: the detail endpoints are asked

\* The goroutine serving the detail requests.
DetailCaller == "c1"

NextDetail ==
    \/ \E n \in Names, k \in CheckerIds : RegisterChecker(n, k) /\ Op("other", "none")
    \/ \E n \in Names : UnregisterChecker(n) /\ Op("other", "none")
    \/ \E b \in BOOLEAN : SetReady(b) /\ Op("SetReady", b)
    \/ \E k \in DetailKinds : CheckAllBegin(DetailCaller, k) /\ Op("other", "none")
    \/ \E n \in Names : TaskLookup(DetailCaller, n) /\ Op("other", "none")
    \/ \E n \in Names, r \in HttpResults :
          TaskCheckReturn(DetailCaller, n, r) /\ Op("other", "none")
    \/ \E n \in Names : TaskStore(DetailCaller, n) /\ Op("other", "none")
    \/ DetailSecondCall(DetailCaller) /\ Op("other", "none")
    \/ CheckAllReturn(DetailCaller) /\ Op("other", "none")
    \/ CallerReset(DetailCaller) /\ Op("other", "none")

SpecDetail == Init /\ [][NextDetail]_vars

\* ------------------- SpecStatus: GetOverallStatus under every strategy

\* The strategies a Manager is constructed with.
ManagerStrategies ==
    {[kind |-> k, weights |-> EmptyMap] :
        k \in {"health.AllHealthy", "strategies.AllHealthy", "Majority"}}
    \cup {[kind |-> "Weighted", weights |-> w] : w \in Maps(Names, Importances)}

InitStatus ==
    /\ InitManager
    /\ strategy \in ManagerStrategies
    /\ InitCallers
    /\ InitAggIdle
    /\ InitAppIdle
    /\ InitCustomIdle

\* The goroutine asking for the overall status.
StatusCaller == "c1"

\* The results checkers return while the overall status is asked for.
StatusResults == [status : {StatusHealthy, StatusUnhealthy}, duration : {0}]

NextStatus ==
    \/ \E n \in Names, k \in CheckerIds : RegisterChecker(n, k) /\ Op("mgr", "none")
    \/ \E n \in Names : UnregisterChecker(n) /\ Op("mgr", "none")
    \/ CheckAllBegin(StatusCaller, "GetOverallStatus") /\ Op("call", "none")
    \/ \E n \in Names : TaskLookup(StatusCaller, n) /\ Op("call", "none")
    \/ \E n \in Names, r \in StatusResults :
          TaskCheckReturn(StatusCaller, n, r) /\ Op("call", "none")
    \/ \E n \in Names : TaskStore(StatusCaller, n) /\ Op("call", "none")
    \/ CheckAllReturn(StatusCaller) /\ Op("call", "none")
    \/ CallerReset(StatusCaller) /\ Op("call", "none")

SpecStatus == InitStatus /\ [][NextStatus]_vars

\* ------------------------- SpecPanic: CheckAll over checkers that may panic

\* The goroutine calling CheckAll.
PanicCaller == "c1"

\* The process executes steps only while it is alive.
Alive == proc = "running"

NextPanic ==
    \/ \E n \in Names, k \in CheckerIds :
          Alive /\ RegisterChecker(n, k) /\ Op("mgr", "none")
    \/ \E n \in Names : Alive /\ UnregisterChecker(n) /\ Op("mgr", "none")
    \/ Alive /\ CheckAllBegin(PanicCaller, "CheckAll") /\ Op("call", "none")
    \/ \E n \in Names : Alive /\ TaskLookup(PanicCaller, n) /\ Op("call", "none")
    \/ \E n \in Names, r \in StatusResults :
          Alive /\ TaskCheckReturn(PanicCaller, n, r) /\ Op("call", "none")
    \/ \E n \in Names : Alive /\ TaskCheckPanic(PanicCaller, n) /\ Op("panic", n)
    \/ \E n \in Names : Alive /\ TaskStore(PanicCaller, n) /\ Op("call", "none")
    \/ Alive /\ CheckAllReturn(PanicCaller) /\ Op("call", "none")
    \/ Alive /\ CallerReset(PanicCaller) /\ Op("call", "none")

SpecPanic == Init /\ [][NextPanic]_vars

\* ------------------------------------- SpecAgg: the strategies on their own

NoAggOut == [health |-> "none", strategies |-> "none", majority |-> "none",
             weighted |-> "none"]

InitAgg ==
    /\ InitManager
    /\ strategy = DefaultStrategy
    /\ InitCallers
    /\ aggResults \in Maps(AggNames, Statuses)
    /\ aggWeights \in Maps(AggNames, Importances)
    /\ aggOut = NoAggOut
    /\ checkerNames = << >>
    /\ InitAppIdle
    /\ InitCustomIdle

\* Each strategy's Aggregate applied to aggResults, the map being visited in
\* one of its iteration orders.
ApplyStrategies ==
    /\ aggOut = NoAggOut
    /\ \E s \in IterOrders(aggResults) :
          LET rs == Visit(aggResults, s)
          IN aggOut' = [health |-> HealthAllHealthyAggregate(rs),
                        strategies |-> StrategiesAllHealthyAggregate(rs),
                        majority |-> MajorityHealthyAggregate(rs),
                        weighted |-> WeightedAggregate(aggWeights, rs)]
    /\ UNCHANGED <<aggResults, aggWeights>>
    /\ UNCHANGED mgrVars
    /\ UNCHANGED callVars
    /\ UNCHANGED appVars
    /\ UNCHANGED ccVars
    /\ UNCHANGED wiringVars
    /\ UNCHANGED queryVars
    /\ UNCHANGED obsVars

NextAgg == ApplyStrategies /\ Op("Aggregate", "none")

SpecAgg == InitAgg /\ [][NextAgg]_vars

\* ---------------------------------------------------------------- App.Start

\* The services registered with Add, and the observability service that Start
\* runs as well when the configuration enables it.
Runners == {"s1", "s2"}
ObservabilityService == "observability"

\* What a task has returned to the errgroup.
TaskReturns == {"nil", "err", "panic"}

\* What every step of the application leaves alone.
AppOutside == UNCHANGED <<mgrVars, callVars, aggVars, ccVars, wiringVars, queryVars, obsVars>>

\* A plausible slip: the group keeps the latest error instead of the first.
FirstAfterReturnLatest(task, sv, res) ==
    IF res # "nil" THEN [task |-> task, of |-> sv, err |-> res] ELSE groupFirst

\* errgroup's errOnce: the error Wait will return after task `task` of service
\* sv returned res is the first non-nil one.
FirstAfterReturn(task, sv, res) ==
    IF res # "nil" /\ ~groupErr
    THEN [task |-> task, of |-> sv, err |-> res]
    ELSE groupFirst

\* A plausible slip: every return of a task ends the group's context.
GroupTaskReturnsCancelling(task, sv, res) ==
    /\ groupErr' = (groupErr \/ res # "nil")
    /\ groupFirst' = FirstAfterReturn(task, sv, res)
    /\ ctxDone' = TRUE

\* errgroup.WithContext: the group's context is done after a task returned
\* res if it was done before or res is a non-nil error.
CtxAfterReturn(res) == ctxDone \/ res # "nil"

\* errgroup.Group.Go: a task returns res; the first non-nil error is kept for
\* Wait and cancels the group's context.
GroupTaskReturns(task, sv, res) ==
    /\ groupErr' = (groupErr \/ res # "nil")
    /\ groupFirst' = FirstAfterReturn(task, sv, res)
    /\ ctxDone' = CtxAfterReturn(res)

\* The runner task's goroutine enters the service's Run.
RunInvoke(sv) ==
    /\ Alive
    /\ sv \in DOMAIN runner
    /\ runner[sv] = "spawned"
    /\ runner' = [runner EXCEPT ![sv] = "running"]
    /\ UNCHANGED <<proc, exitCode, waiter, ctxDone, groupErr, groupFirst, stopAllOnErr,
                   shutdownCtx, shutdownTimeout, sinceCancel>>
    /\ AppOutside

\* A plausible slip: the task drops context.Canceled whether or not the
\* shared context is cancelled.
RunnerResultSwallowing(sv, e) ==
    IF sv = ObservabilityService
    THEN (IF e = "nil" THEN "nil" ELSE "err")
    ELSE (IF e = "nil" \/ e = "ctxErr" THEN "nil" ELSE "err")

\* What the runner task returns when Run returned e ("nil", "ctxErr" for an
\* error that is context.Canceled, "err" for any other): a registered
\* service's task drops the error that is the context's own, the
\* observability service's task returns Run's error as it is.
RunnerResult(sv, e) ==
    IF sv = ObservabilityService
    THEN (IF e = "nil" THEN "nil" ELSE "err")
    ELSE (IF e = "nil" \/ (e = "ctxErr" /\ ctxDone) THEN "nil" ELSE "err")

\* The service's Run returns e and its task returns to the errgroup.
RunReturn(sv, e) ==
    /\ Alive
    /\ sv \in DOMAIN runner
    /\ runner[sv] = "running"
    /\ runner' = [runner EXCEPT ![sv] = RunnerResult(sv, e)]
    /\ GroupTaskReturns("runner", sv, RunnerResult(sv, e))
    /\ UNCHANGED <<proc, exitCode, waiter, stopAllOnErr, shutdownCtx, shutdownTimeout, sinceCancel>>
    /\ AppOutside

\* The service's Run panics.  A registered service's task recovers, calls
\* cancel() when stopAllOnErr is set and returns the error it made of the
\* panic; the observability service's task has no recover and the panic ends
\* the process.
RunPanic(sv) ==
    /\ Alive
    /\ sv \in DOMAIN runner
    /\ runner[sv] = "running"
    /\ IF sv = ObservabilityService
       THEN /\ proc' = "panic"
            /\ exitCode' = ExitCodePanic
            /\ UNCHANGED <<runner, ctxDone, groupErr, groupFirst>>
       ELSE /\ runner' = [runner EXCEPT ![sv] = "panic"]
            /\ groupErr' = TRUE
            /\ groupFirst' = FirstAfterReturn("runner", sv, "panic")
            /\ ctxDone' = (stopAllOnErr \/ CtxAfterReturn("panic"))
            /\ UNCHANGED <<proc, exitCode>>
    /\ UNCHANGED <<waiter, stopAllOnErr, shutdownCtx, shutdownTimeout, sinceCancel>>
    /\ AppOutside

\* os.Interrupt arrives, or the context given in the options is cancelled.
Interrupt ==
    /\ Alive
    /\ DOMAIN runner # {}
    /\ ~ctxDone
    /\ ctxDone' = TRUE
    /\ UNCHANGED <<proc, exitCode, runner, waiter, groupErr, groupFirst, stopAllOnErr,
                   shutdownCtx, shutdownTimeout, sinceCancel>>
    /\ AppOutside

\* A plausible slip: the waiter calls Shutdown without waiting for the
\* shared context to be done.
ShutdownInvokeEager(sv) ==
    /\ Alive
    /\ sv \in DOMAIN waiter
    /\ waiter[sv] = "waiting"
    /\ waiter' = [waiter EXCEPT ![sv] = "shutdown"]
    /\ shutdownCtx' = [shutdownCtx EXCEPT ![sv] = [parent |-> "background",
                                                    at |-> sinceCancel]]
    /\ UNCHANGED <<proc, exitCode, runner, ctxDone, groupErr, groupFirst, stopAllOnErr,
                   shutdownTimeout, sinceCancel>>
    /\ AppOutside

\* A plausible slip: the context for Shutdown is derived from the shared one.
ShutdownCtxParentShared == "shared"

\* The parent of the context GracefulShutdown makes for Shutdown:
\* context.Background().
ShutdownCtxParent == "background"

\* Err() of the context sv's Shutdown was given: a context is done as soon as
\* its parent is, and with DeadlineExceeded once its own timeout has passed.
ShutdownCtxErr(sv) ==
    IF shutdownCtx[sv].parent = "shared" /\ ctxDone THEN "canceled"
    ELSE IF sinceCancel - shutdownCtx[sv].at >= shutdownTimeout THEN "deadline"
    ELSE "live"

\* GracefulShutdown: the context is done, the waiter makes a context with the
\* shutdown timeout and calls the service's Shutdown with it.
ShutdownInvoke(sv) ==
    /\ Alive
    /\ sv \in DOMAIN waiter
    /\ waiter[sv] = "waiting"
    /\ ctxDone
    /\ waiter' = [waiter EXCEPT ![sv] = "shutdown"]
    /\ shutdownCtx' = [shutdownCtx EXCEPT ![sv] = [parent |-> ShutdownCtxParent,
                                                    at |-> sinceCancel]]
    /\ UNCHANGED <<proc, exitCode, runner, ctxDone, groupErr, groupFirst, stopAllOnErr,
                   shutdownTimeout, sinceCancel>>
    /\ AppOutside

\* Shutdown returns e ("nil" or "err") and the waiter returns it, wrapped, to
\* the errgroup.
ShutdownReturn(sv, e) ==
    /\ Alive
    /\ sv \in DOMAIN waiter
    /\ waiter[sv] = "shutdown"
    /\ waiter' = [waiter EXCEPT ![sv] = e]
    /\ GroupTaskReturns("waiter", sv, e)
    /\ UNCHANGED <<proc, exitCode, runner, stopAllOnErr, shutdownCtx, shutdownTimeout, sinceCancel>>
    /\ AppOutside

\* Shutdown panics: GracefulShutdown has no recover, the panic ends the
\* process.
ShutdownPanic(sv) ==
    /\ Alive
    /\ sv \in DOMAIN waiter
    /\ waiter[sv] = "shutdown"
    /\ proc' = "panic"
    /\ exitCode' = ExitCodePanic
    /\ UNCHANGED <<runner, waiter, ctxDone, groupErr, groupFirst, stopAllOnErr,
                   shutdownCtx, shutdownTimeout, sinceCancel>>
    /\ AppOutside

\* A plausible slip: Wait returns once the runner tasks have returned.
AllTasksReturnedRunnersOnly ==
    \A sv \in DOMAIN runner : runner[sv] \in TaskReturns

\* Every task given to the errgroup has returned.
AllTasksReturned ==
    /\ \A sv \in DOMAIN runner : runner[sv] \in TaskReturns
    /\ \A sv \in DOMAIN waiter : waiter[sv] \in TaskReturns

\* g.Wait() returns and Start exits the process.
WaitReturns ==
    /\ Alive
    /\ DOMAIN runner # {}
    /\ AllTasksReturned
    /\ proc' = "exited"
    /\ exitCode' = IF groupErr THEN ExitCodeApplicationErr ELSE ExitCodeOk
    /\ UNCHANGED <<runner, waiter, ctxDone, groupErr, groupFirst, stopAllOnErr,
                   shutdownCtx, shutdownTimeout, sinceCancel>>
    /\ AppOutside

\* A step some goroutine takes without waiting for anything.
AppStepPending ==
    \/ \E sv \in DOMAIN runner : runner[sv] = "spawned"
    \/ \E sv \in DOMAIN waiter : waiter[sv] = "waiting"
    \/ AllTasksReturned

\* A second passes while the watchdog sleeps.
TickApp ==
    /\ Alive
    /\ ctxDone
    /\ ~AppStepPending
    /\ sinceCancel < WatchdogTimeout
    /\ sinceCancel' = sinceCancel + 1
    /\ UNCHANGED <<proc, exitCode, runner, waiter, ctxDone, groupErr, groupFirst,
                   stopAllOnErr, shutdownCtx, shutdownTimeout>>
    /\ AppOutside

\* The watchdog has slept watchdogTimeout since the context was done and
\* exits the process.
Watchdog ==
    /\ Alive
    /\ ctxDone
    /\ sinceCancel >= WatchdogTimeout
    /\ proc' = "watchdog"
    /\ exitCode' = ExitCodeWatchdog
    /\ UNCHANGED <<runner, waiter, ctxDone, groupErr, groupFirst, stopAllOnErr,
                   shutdownCtx, shutdownTimeout, sinceCancel>>
    /\ AppOutside

\* What a service's Run and Shutdown may return.
RunErrors == {"nil", "ctxErr", "err"}
ShutdownErrors == {"nil", "err"}

\* The health side is idle while the application's lifecycle is studied.
InitHealthIdle ==
    /\ InitManager
    /\ strategy = DefaultStrategy
    /\ InitCallers
    /\ InitAggIdle
    /\ InitCustomIdle

\* The registered services in the order Add was called with them.
AddedInOrder == <<"s1", "s2">>

\* Start has given the errgroup two tasks for every service in svs.
InitStarted(svs) ==
    /\ proc = "running"
    /\ exitCode = NoExitCode
    /\ runner = [sv \in svs |-> "spawned"]
    /\ waiter = [sv \in svs |-> "waiting"]
    /\ ctxDone = FALSE
    /\ groupErr = FALSE
    /\ groupFirst = NoError
    /\ shutdownCtx = [sv \in svs |-> NoShutdownCtx]
    /\ obsServer = "nil"
    /\ runners = AddedInOrder
    /\ pending = << >>
    /\ sinceCancel = 0

\* ------------------- SpecApp: the services' tasks, the observability
\* service enabled or not, stop-all-on-error set or not

InitApp ==
    /\ InitHealthIdle
    /\ \E svs \in {Runners, Runners \cup {ObservabilityService}} : InitStarted(svs)
    /\ stopAllOnErr \in BOOLEAN
    /\ shutdownTimeout = DefaultShutdownTimeout

AppServices == Runners \cup {ObservabilityService}

NextApp ==
    \/ \E sv \in AppServices : RunInvoke(sv) /\ Op("RunInvoke", sv)
    \/ \E sv \in AppServices, e \in RunErrors : RunReturn(sv, e) /\ Op("RunReturn", <<sv, e>>)
    \/ \E sv \in AppServices : RunPanic(sv) /\ Op("RunPanic", sv)
    \/ Interrupt /\ Op("Interrupt", "none")
    \/ \E sv \in AppServices : ShutdownInvoke(sv) /\ Op("ShutdownInvoke", sv)
    \/ \E sv \in AppServices, e \in ShutdownErrors :
          ShutdownReturn(sv, e) /\ Op("ShutdownReturn", <<sv, e>>)
    \/ \E sv \in AppServices : ShutdownPanic(sv) /\ Op("ShutdownPanic", sv)
    \/ WaitReturns /\ Op("WaitReturns", "none")

SpecApp == InitApp /\ [][NextApp]_vars

\* ------------------- SpecWatchdog: two services against the clock, under
\* the shutdown timeouts WithShutdownTimeout may set

ShutdownTimeouts == {2, DefaultShutdownTimeout, 12}

InitWatchdog ==
    /\ InitHealthIdle
    /\ InitStarted(Runners)
    /\ stopAllOnErr = TRUE
    /\ shutdownTimeout \in ShutdownTimeouts

NextWatchdog ==
    \/ \E sv \in Runners : RunInvoke(sv) /\ Op("RunInvoke", sv)
    \/ \E sv \in Runners, e \in RunErrors : RunReturn(sv, e) /\ Op("RunReturn", <<sv, e>>)
    \/ \E sv \in Runners : RunPanic(sv) /\ Op("RunPanic", sv)
    \/ Interrupt /\ Op("Interrupt", "none")
    \/ \E sv \in Runners : ShutdownInvoke(sv) /\ Op("ShutdownInvoke", sv)
    \/ \E sv \in Runners, e \in ShutdownErrors :
          ShutdownReturn(sv, e) /\ Op("ShutdownReturn", <<sv, e>>)
    \/ \E sv \in Runners : ShutdownPanic(sv) /\ Op("ShutdownPanic", sv)
    \/ WaitReturns /\ Op("WaitReturns", "none")
    \/ TickApp /\ Op("TickApp", "none")
    \/ Watchdog /\ Op("Watchdog", "none")

SpecWatchdog == InitWatchdog /\ [][NextWatchdog]_vars

\* ------------------------------- ObservabilityService.Run and Shutdown

\* What the steps of the observability service leave alone.
ObsOutside == UNCHANGED <<mgrVars, callVars, aggVars, ccVars, wiringVars, queryVars>>

\* Run has built the mux, assigns s.server and enters ListenAndServe.
ObsRunServe ==
    /\ Alive
    /\ ObservabilityService \in DOMAIN runner
    /\ runner[ObservabilityService] = "running"
    /\ obsServer = "nil"
    /\ obsServer' = "serving"
    /\ UNCHANGED appVars
    /\ ObsOutside

\* ListenAndServe returns e: http.ErrServerClosed ("closed") after the
\* server was shut down, which Run turns into nil, or another error ("err",
\* the port cannot be bound), which Run returns wrapped.
ObsRunReturn(e) ==
    /\ Alive
    /\ ObservabilityService \in DOMAIN runner
    /\ runner[ObservabilityService] = "running"
    /\ \/ obsServer = "closed" /\ e = "closed"
       \/ obsServer = "serving" /\ e = "err"
    /\ obsServer' = "closed"
    /\ LET res == IF e = "closed" THEN "nil" ELSE "err"
       IN /\ runner' = [runner EXCEPT ![ObservabilityService] = res]
          /\ GroupTaskReturns("runner", ObservabilityService, res)
    /\ UNCHANGED <<proc, exitCode, waiter, stopAllOnErr, shutdownCtx, shutdownTimeout,
                   sinceCancel>>
    /\ ObsOutside

\* What Shutdown may read in s.server: Run writes the field in another
\* goroutine without synchronisation, so once it is written the read may
\* yield the old nil as well as the server.
ObsServerSeen == IF obsServer = "nil" THEN {"nil"} ELSE {"nil", "set"}

\* The observability waiter, the context being done, calls Shutdown, which
\* reads s.server: with nil it returns nil at once; otherwise it calls
\* server.Shutdown, which closes the listeners (ListenAndServe returns
\* ErrServerClosed) and then waits for the connections.
ObsShutdownInvoke(seen) ==
    /\ Alive
    /\ ObservabilityService \in DOMAIN waiter
    /\ waiter[ObservabilityService] = "waiting"
    /\ ctxDone
    /\ seen \in ObsServerSeen
    /\ shutdownCtx' = [shutdownCtx EXCEPT ![ObservabilityService] =
                          [parent |-> ShutdownCtxParent, at |-> sinceCancel]]
    /\ IF seen = "nil"
       THEN /\ waiter' = [waiter EXCEPT ![ObservabilityService] = "nil"]
            /\ GroupTaskReturns("waiter", ObservabilityService, "nil")
            /\ UNCHANGED obsServer
       ELSE /\ waiter' = [waiter EXCEPT ![ObservabilityService] = "shutdown"]
            /\ obsServer' = "closed"
            /\ UNCHANGED <<groupErr, groupFirst, ctxDone>>
    /\ UNCHANGED <<proc, exitCode, runner, stopAllOnErr, shutdownTimeout, sinceCancel>>
    /\ ObsOutside

\* A step of the observability service that does not wait for time to pass:
\* Run entering ListenAndServe, ListenAndServe returning from a closed
\* server, server.Shutdown returning once its context is done.
ObsStepPending ==
    \/ /\ runner[ObservabilityService] = "running"
       /\ obsServer \in {"nil", "closed"}
    \/ /\ waiter[ObservabilityService] = "shutdown"
       /\ ShutdownCtxErr(ObservabilityService) # "live"

\* A second passes for the observability service.
ObsTick ==
    /\ ~ObsStepPending
    /\ TickApp

\* ------------------- SpecObs: the observability service alone, against
\* the clock

InitObs ==
    /\ InitHealthIdle
    /\ proc = "running"
    /\ exitCode = NoExitCode
    /\ runner = [sv \in {ObservabilityService} |-> "spawned"]
    /\ waiter = [sv \in {ObservabilityService} |-> "waiting"]
    /\ ctxDone = FALSE
    /\ groupErr = FALSE
    /\ groupFirst = NoError
    /\ shutdownCtx = [sv \in {ObservabilityService} |-> NoShutdownCtx]
    /\ obsServer = "nil"
    /\ runners = << >>
    /\ pending = << >>
    /\ sinceCancel = 0
    /\ stopAllOnErr = TRUE
    /\ shutdownTimeout \in ShutdownTimeouts

NextObs ==
    \/ RunInvoke(ObservabilityService) /\ Op("RunInvoke", ObservabilityService)
    \/ ObsRunServe /\ Op("ObsRunServe", "none")
    \/ \E e \in {"closed", "err"} : ObsRunReturn(e) /\ Op("ObsRunReturn", e)
    \/ Interrupt /\ Op("Interrupt", "none")
    \/ \E seen \in {"nil", "set"} : ObsShutdownInvoke(seen) /\ Op("ObsShutdownInvoke", seen)
    \/ \E e \in ShutdownErrors :
          ShutdownReturn(ObservabilityService, e)
             /\ Op("ShutdownReturn", <<ObservabilityService, e>>)
    \/ WaitReturns /\ Op("WaitReturns", "none")
    \/ ObsTick /\ Op("TickApp", "none")
    \/ Watchdog /\ Op("Watchdog", "none")

SpecObs == InitObs /\ [][NextObs]_vars

\* ------------------------------------------------ checks.CustomCheck.Check

\* A HealthResult as far as its status and its distinguishing detail key go.
FnResults == [status : Statuses, key : {"none"}]
PanicResult == [status |-> StatusUnhealthy, key |-> "panic"]
TimeoutResult == [status |-> StatusUnhealthy, key |-> "timeout"]
CancelledResult == [status |-> StatusUnhealthy, key |-> "error"]

\* A plausible slip: the two ends of the context are told apart the wrong way.
CtxDoneResultSwapped(err) ==
    IF err = "deadline" THEN CancelledResult ELSE TimeoutResult

\* The select's second case: checkCtx is done with error err.
CtxDoneResult(err) ==
    IF err = "deadline" THEN TimeoutResult ELSE CancelledResult

\* An entry of the log: what happened, and the result it carried if any.
CcEvent(ev, r) == [ev |-> ev, r |-> r]

\* What every step of a Check call leaves alone.
CcOutside ==
    UNCHANGED <<mgrVars, callVars, aggVars, appVars, wiringVars, queryVars, obsVars>>

\* Check returns r; the deferred cancel() ends checkCtx if it is still live.
CcReturns(r, events) ==
    /\ ccPc' = "returned"
    /\ ccOut' = r
    /\ ccLog' = ccLog \o events \o <<CcEvent("return", NoResult)>>

\* The parent context is cancelled and checkCtx with it; a caller blocked in
\* the select wakes up on checkCtx.Done() and returns.
CcParentCancel ==
    /\ ccPc # "returned"
    /\ ccCtx = "live"
    /\ ccCtx' = "canceled"
    /\ IF ccPc = "parked"
       THEN CcReturns(CtxDoneResult("canceled"), <<CcEvent("cancel", NoResult)>>)
       ELSE /\ ccLog' = Append(ccLog, CcEvent("cancel", NoResult))
            /\ UNCHANGED <<ccPc, ccOut>>
    /\ UNCHANGED <<ccWorker, ccResult, ccChan>>
    /\ CcOutside

\* Check is entered: checkCtx is derived from the parent, resultChan is made
\* and the worker goroutine is started.
CcCheckBegin ==
    /\ ccPc = "idle"
    /\ ccPc' = "select"
    /\ ccWorker' = "running"
    /\ ccLog' = Append(ccLog, CcEvent("begin", NoResult))
    /\ UNCHANGED <<ccResult, ccChan, ccCtx, ccOut>>
    /\ CcOutside

\* checkCtx's timer fires: the per-check timeout has expired.
CcDeadline ==
    /\ ccPc \in {"select", "parked"}
    /\ ccCtx = "live"
    /\ ccCtx' = "deadline"
    /\ IF ccPc = "parked"
       THEN CcReturns(CtxDoneResult("deadline"), <<CcEvent("deadline", NoResult)>>)
       ELSE /\ ccLog' = Append(ccLog, CcEvent("deadline", NoResult))
            /\ UNCHANGED <<ccPc, ccOut>>
    /\ UNCHANGED <<ccWorker, ccResult, ccChan>>
    /\ CcOutside

\* checkFn returns r to the worker.
CcFnReturn(r) ==
    /\ ccWorker = "running"
    /\ ccWorker' = "returned"
    /\ ccResult' = r
    /\ ccLog' = Append(ccLog, CcEvent("result", r))
    /\ UNCHANGED <<ccPc, ccChan, ccCtx, ccOut>>
    /\ CcOutside

\* checkFn panics; the worker's deferred function recovers the panic.
CcFnPanic ==
    /\ ccWorker = "running"
    /\ ccWorker' = "recovered"
    /\ ccLog' = Append(ccLog, CcEvent("panic", PanicResult))
    /\ UNCHANGED <<ccPc, ccResult, ccChan, ccCtx, ccOut>>
    /\ CcOutside

\* A plausible slip: resultChan has no buffer, the worker's send waits for
\* the caller to be receiving.
CcWorkerSendUnbuffered ==
    /\ ccWorker \in {"returned", "recovered"}
    /\ ccPc = "parked"
    /\ ccWorker' = "sent"
    /\ LET r == IF ccWorker = "recovered" THEN PanicResult ELSE ccResult
       IN /\ CcReturns(r, <<CcEvent("send", r)>>)
          /\ ccCtx' = "canceled"
          /\ UNCHANGED ccChan
    /\ UNCHANGED ccResult
    /\ CcOutside

\* The worker puts its result, or the panic result, into resultChan (the
\* buffer of one never blocks it); a caller blocked in the select wakes up on
\* the channel and returns what was sent.
CcWorkerSend ==
    /\ ccWorker \in {"returned", "recovered"}
    /\ ccWorker' = "sent"
    /\ LET r == IF ccWorker = "recovered" THEN PanicResult ELSE ccResult
       IN IF ccPc = "parked"
          THEN /\ CcReturns(r, <<CcEvent("send", r)>>)
               /\ ccCtx' = "canceled"
               /\ UNCHANGED ccChan
          ELSE /\ ccChan' = <<r>>
               /\ ccLog' = Append(ccLog, CcEvent("send", r))
               /\ UNCHANGED <<ccPc, ccCtx, ccOut>>
    /\ UNCHANGED ccResult
    /\ CcOutside

\* The caller reaches the select: of the cases that are ready it takes any
\* one; with none ready it blocks.
CcSelect ==
    /\ ccPc = "select"
    /\ \/ /\ ccChan # << >>
          /\ CcReturns(ccChan[1], << >>)
          /\ ccChan' = << >>
          /\ ccCtx' = IF ccCtx = "live" THEN "canceled" ELSE ccCtx
       \/ /\ ccCtx # "live"
          /\ CcReturns(CtxDoneResult(ccCtx), << >>)
          /\ UNCHANGED <<ccChan, ccCtx>>
       \/ /\ ccChan = << >>
          /\ ccCtx = "live"
          /\ ccPc' = "parked"
          /\ ccLog' = Append(ccLog, CcEvent("wait", NoResult))
          /\ UNCHANGED <<ccChan, ccCtx, ccOut>>
    /\ UNCHANGED <<ccWorker, ccResult>>
    /\ CcOutside

\* ----------------------------- SpecCustom: one call of CustomCheck.Check

NextCustom ==
    \/ CcParentCancel /\ Op("cancel", "none")
    \/ CcCheckBegin /\ Op("Check", "none")
    \/ CcDeadline /\ Op("deadline", "none")
    \/ \E r \in FnResults : CcFnReturn(r) /\ Op("checkFn", "none")
    \/ CcFnPanic /\ Op("checkFn", "none")
    \/ CcWorkerSend /\ Op("worker", "none")
    \/ CcSelect /\ Op("Check", "none")

SpecCustom == Init /\ [][NextCustom]_vars

\* ------------------------------------------------- the registry's other calls

\* What the registry calls leave alone besides the Manager's own fields.
RegistryOutside == UNCHANGED <<callVars, aggVars, appVars, ccVars, obsVars>>

\* Manager.RegisterCheckers is entered with `list`, a sequence of
\* <<name, checker>>: its loop has the whole list ahead of it.
RegisterCheckers(list) ==
    /\ pending = << >>
    /\ pending' = list
    /\ UNCHANGED <<mgrVars, runners, queryVars>>
    /\ RegistryOutside

\* One iteration of RegisterCheckers' loop: RegisterChecker on the next
\* checker of the list, under its own Lock/Unlock.
RegisterNext ==
    /\ pending # << >>
    /\ CanLock(mu)
    /\ checkers' = Registered(checkers, Head(pending)[1], Head(pending)[2])
    /\ pending' = Tail(pending)
    /\ UNCHANGED <<cache, ready, strategy, now, mu, readyMu, runners, queryVars>>
    /\ RegistryOutside

\* Manager.GetCheckerNames: the keys of the checker map, in the order range
\* visits them.
GetCheckerNames ==
    /\ CanRLock(mu)
    /\ checkerNames' \in IterOrders(checkers)
    /\ UNCHANGED <<mgrVars, wiringVars>>
    /\ RegistryOutside

\* Manager.IsReady called by c on its own: the flag under the read lock.
IsReady(c) ==
    /\ pc[c] = "idle"
    /\ CanRLock(readyMu)
    /\ isReady' = [isReady EXCEPT ![c] = ready]
    /\ UNCHANGED <<pc, kind, snap, tpc, tres, results, out, checks>>
    /\ UNCHANGED mgrVars
    /\ UNCHANGED apartVars

\* --------------- SpecRegistry: the registry is edited while one caller
\* runs CheckAll

RegistryCaller == "c1"

\* The lists of <<name, checker>> RegisterCheckers is given: none, one name
\* twice with two checkers, two names.
RegistryLists ==
    {<< >>,
     <<<<"db", 1>>, <<"db", MaxRegistryId>>>>,
     <<<<"api", MaxRegistryId>>, <<"db", 1>>>>}

NextRegistry ==
    \/ \E n \in Names, k \in RegistryIds :
          RegisterChecker(n, k) /\ Op("RegisterChecker", <<n, k>>)
    \/ \E list \in RegistryLists : RegisterCheckers(list) /\ Op("RegisterCheckers", Len(list))
    \/ RegisterNext /\ Op("RegisterNext", Head(pending))
    \/ \E n \in Names : UnregisterChecker(n) /\ Op("UnregisterChecker", n)
    \/ ClearCache /\ Op("ClearCache", "none")
    \/ GetCheckerNames /\ Op("GetCheckerNames", "none")
    \/ CheckAllBegin(RegistryCaller, "CheckAll") /\ Op("CheckAllBegin", "none")
    \/ \E n \in Names : TaskLookup(RegistryCaller, n) /\ Op("TaskLookup", n)
    \/ \E n \in Names, r \in ConcResults :
          TaskCheckReturn(RegistryCaller, n, r) /\ Op("TaskCheckReturn", n)
    \/ \E n \in Names : TaskStore(RegistryCaller, n) /\ Op("TaskStore", n)
    \/ CheckAllReturn(RegistryCaller) /\ Op("CheckAllReturn", "none")
    \/ CallerReset(RegistryCaller) /\ Op("CallerReset", "none")

SpecRegistry == Init /\ [][NextRegistry]_vars

\* --------------- SpecLocks: every Manager call is made while one caller
\* runs CheckAll and another asks IsReady

LockCaller == "c1"
ReadyCaller == "c2"

NextLocks ==
    \/ \E n \in Names, k \in CheckerIds :
          RegisterChecker(n, k) /\ Op("RegisterChecker", <<n, k>>)
    \/ \E n \in Names : UnregisterChecker(n) /\ Op("UnregisterChecker", n)
    \/ ClearCache /\ Op("ClearCache", "none")
    \/ GetCheckerNames /\ Op("GetCheckerNames", "none")
    \/ \E b \in BOOLEAN : SetReady(b) /\ Op("SetReady", b)
    \/ IsReady(ReadyCaller) /\ Op("IsReady", "none")
    \/ CheckAllBegin(LockCaller, "CheckAll") /\ Op("CheckAllBegin", "none")
    \/ \E n \in Names : TaskLookup(LockCaller, n) /\ Op("TaskLookup", n)
    \/ \E n \in Names, r \in ConcResults :
          TaskCheckReturn(LockCaller, n, r) /\ Op("TaskCheckReturn", n)
    \/ \E n \in Names : TaskStore(LockCaller, n) /\ Op("TaskStore", n)
    \/ CheckAllReturn(LockCaller) /\ Op("CheckAllReturn", "none")
    \/ CallerReset(LockCaller) /\ Op("CallerReset", "none")

SpecLocks == Init /\ [][NextLocks]_vars

\* --------------- SpecOverwrite: checkers are replaced between the
\* CheckAll calls of one caller

OverwriteCaller == "c1"

\* What checker k's Check returns: the first checker reports Healthy, every
\* other one Unhealthy, so that a result tells which checker produced it.
CheckerResult(k) ==
    [status |-> IF k = 1 THEN StatusHealthy ELSE StatusUnhealthy, duration |-> 0]

NextOverwrite ==
    \/ \E n \in Names, k \in RegistryIds :
          RegisterChecker(n, k) /\ Op("RegisterChecker", <<n, k>>)
    \/ ClearCache /\ Op("ClearCache", "none")
    \/ CheckAllBegin(OverwriteCaller, "CheckAll") /\ Op("CheckAllBegin", "none")
    \/ \E n \in Names : TaskLookup(OverwriteCaller, n) /\ Op("TaskLookup", n)
    \/ \E n \in Names :
          /\ n \in DOMAIN snap[OverwriteCaller]
          /\ TaskCheckReturn(OverwriteCaller, n, CheckerResult(snap[OverwriteCaller][n]))
          /\ Op("TaskCheckReturn", n)
    \/ \E n \in Names : TaskStore(OverwriteCaller, n) /\ Op("TaskStore", n)
    \/ CheckAllReturn(OverwriteCaller) /\ Op("CheckAllReturn", "none")
    \/ CallerReset(OverwriteCaller) /\ Op("CallerReset", "none")

SpecOverwrite == Init /\ [][NextOverwrite]_vars

\* ------------------------------------------------------ App.Add, then Start

\* The services that implement health.HealthProvider, and the checkers
\* <<name, checker>> HealthChecks() returns: "s1" declares two, "s2" does not
\* implement the interface.
HealthProviders == {"s1"}
HealthChecks(sv) == IF sv = "s1" THEN <<<<"db", 1>>, <<"api", 1>>>> ELSE << >>

\* The services in list l.
Added(l) == {l[i] : i \in 1..Len(l)}

\* A plausible slip: Add only records the service, its checkers are left
\* for Start to register.
AddDeferring(sv) ==
    /\ Alive
    /\ DOMAIN runner = {}
    /\ pending = << >>
    /\ sv \notin Added(runners)
    /\ runners' = Append(runners, sv)
    /\ pending' = << >>
    /\ UNCHANGED <<mgrVars, queryVars>>
    /\ RegistryOutside

\* App.Add(svc) before Start: the service goes to the end of a.runners and,
\* if it is a HealthProvider, Add calls RegisterCheckers with what it declares.
Add(sv) ==
    /\ Alive
    /\ DOMAIN runner = {}
    /\ pending = << >>
    /\ sv \notin Added(runners)
    /\ runners' = Append(runners, sv)
    /\ pending' = IF sv \in HealthProviders THEN HealthChecks(sv) ELSE << >>
    /\ UNCHANGED <<mgrVars, queryVars>>
    /\ RegistryOutside

\* App.Start after the last Add has returned: two tasks for every service of
\* a.runners go to the errgroup.
StartApp ==
    /\ Alive
    /\ DOMAIN runner = {}
    /\ pending = << >>
    /\ runners # << >>
    /\ runner' = [sv \in Added(runners) |-> "spawned"]
    /\ waiter' = [sv \in Added(runners) |-> "waiting"]
    /\ shutdownCtx' = [sv \in Added(runners) |-> NoShutdownCtx]
    /\ UNCHANGED <<proc, exitCode, ctxDone, groupErr, groupFirst, stopAllOnErr,
                   shutdownTimeout, sinceCancel>>
    /\ AppOutside

\* ------------------- SpecAdd: services are added, the application is
\* started and runs to its exit

InitAdd ==
    /\ InitHealthIdle
    /\ InitAppIdle

NextAdd ==
    \/ \E sv \in Runners : Add(sv) /\ Op("Add", sv)
    \/ RegisterNext /\ Op("RegisterNext", Head(pending))
    \/ GetCheckerNames /\ Op("GetCheckerNames", "none")
    \/ StartApp /\ Op("StartApp", "none")
    \/ \E sv \in Runners : RunInvoke(sv) /\ Op("RunInvoke", sv)
    \/ \E sv \in Runners, e \in RunErrors : RunReturn(sv, e) /\ Op("RunReturn", <<sv, e>>)
    \/ \E sv \in Runners : RunPanic(sv) /\ Op("RunPanic", sv)
    \/ Interrupt /\ Op("Interrupt", "none")
    \/ \E sv \in Runners : ShutdownInvoke(sv) /\ Op("ShutdownInvoke", sv)
    \/ \E sv \in Runners, e \in ShutdownErrors :
          ShutdownReturn(sv, e) /\ Op("ShutdownReturn", <<sv, e>>)
    \/ \E sv \in Runners : ShutdownPanic(sv) /\ Op("ShutdownPanic", sv)
    \/ WaitReturns /\ Op("WaitReturns", "none")

SpecAdd == InitAdd /\ [][NextAdd]_vars

\* ------------------------------------------------------------ properties

\* A goroutine of caller c for checker n takes the step from `from` to `to`.
TaskMoves(c, n, from, to) ==
    /\ n \in DOMAIN tpc[c]
    /\ tpc[c][n] = from
    /\ n \in DOMAIN tpc'[c]
    /\ tpc'[c][n] = to

\* The cache holds a result for n stored less than CacheTTL ticks ago.
FreshEntry(n) == n \in DOMAIN cache /\ now - cache[n].at < CacheTTL

\* C1 (SpecSeq): of two CheckAll calls made one after the other within the TTL
\* window, the second answers from the cache: no goroutine enters
\* checker.Check for a name whose cached result is younger than the TTL.
C1_WithinTTLAnsweredFromCache ==
    [][\A c \in Callers, n \in Names :
          TaskMoves(c, n, "start", "checking") => ~FreshEntry(n)]_vars

\* C2 (SpecSeq): a cached result is reused only while its age is below the
\* TTL: every goroutine that answers from the cache does so from an entry
\* stored less than CacheTTL ticks ago, whatever the result's Duration field.
C2_ExpiredEntryNotReused ==
    [][\A c \in Callers, n \in Names :
          TaskMoves(c, n, "start", "done") => FreshEntry(n)]_vars

\* The callers whose goroutine for n has entered checker.Check and has not yet
\* stored the result.
Probing(n) ==
    {c \in Callers : n \in DOMAIN tpc[c] /\ tpc[c][n] \in {"checking", "store"}}

\* C3 (Spec): however many CheckAll calls run concurrently, a checker is
\* invoked at most once per TTL window: no two callers are inside the same
\* checker's Check at once.
C3_OneProbePerWindow == \A n \in Names : Cardinality(Probing(n)) <= 1

\* C4 (Spec): CheckAll copies the checker map as registered at that moment and
\* starts a goroutine for every copied checker at once; it returns only after
\* every goroutine has finished, with exactly one result per copied name,
\* whatever RegisterChecker and UnregisterChecker do meanwhile.
C4_FanOutFanIn ==
    /\ [](\A c \in Callers :
            /\ pc[c] # "idle" => DOMAIN tpc[c] = DOMAIN snap[c]
            /\ pc[c] = "done" =>
                  /\ \A n \in DOMAIN tpc[c] : tpc[c][n] = "done"
                  /\ DOMAIN results[c] = DOMAIN snap[c])
    /\ [][\A c \in Callers :
            (pc[c] = "idle" /\ pc'[c] = "running") => snap'[c] = checkers]_vars

\* C4's case: a CheckAll has returned both results of its snapshot although
\* both checkers were unregistered while their goroutines were still running
\* (the results they stored afterwards are still in the cache).
C4_Witness ==
    \E c \in Callers :
        /\ pc[c] = "done"
        /\ DOMAIN results[c] = Names
        /\ checkers = EmptyMap
        /\ DOMAIN cache = Names
        /\ \A d \in Callers \ {c} : pc[d] = "idle"

\* The status the AllHealthy policy prescribes for the result map m.
AllHealthyExpected(m) ==
    IF \E n \in DOMAIN m : m[n] = StatusUnhealthy THEN StatusUnhealthy
    ELSE IF \E n \in DOMAIN m : m[n] = StatusDegraded THEN StatusDegraded
    ELSE StatusHealthy

\* C5 (SpecAgg): both AllHealthyStrategy implementations return Unhealthy if
\* some result is Unhealthy, otherwise Degraded if some result is Degraded,
\* otherwise Healthy, in whatever order the map is visited.
C5_AllHealthyOrderIndependent ==
    (aggOut # NoAggOut /\ aggResults # EmptyMap) =>
        /\ aggOut.health = AllHealthyExpected(aggResults)
        /\ aggOut.strategies = AllHealthyExpected(aggResults)

\* The number of results of m with status st.
NumWithStatus(m, st) == Cardinality({n \in DOMAIN m : m[n] = st})

\* C6 (SpecAgg): MajorityHealthy returns Unhealthy if the unhealthy count
\* reaches floor(total/2) + 1, otherwise Healthy if the healthy count does,
\* otherwise Degraded.
C6_MajorityHealthy ==
    (aggOut # NoAggOut /\ aggResults # EmptyMap) =>
        LET total == Cardinality(DOMAIN aggResults)
            unhealthy == NumWithStatus(aggResults, StatusUnhealthy)
            healthy == NumWithStatus(aggResults, StatusHealthy)
            majority == (total \div 2) + 1
        IN aggOut.majority =
              IF unhealthy >= majority THEN StatusUnhealthy
              ELSE IF healthy >= majority THEN StatusHealthy
              ELSE StatusDegraded

\* C6's case: an even split of one Healthy and one Unhealthy result has been
\* aggregated to Degraded.
C6_Witness ==
    /\ aggOut # NoAggOut
    /\ Cardinality(DOMAIN aggResults) = 2
    /\ NumWithStatus(aggResults, StatusHealthy) = 1
    /\ NumWithStatus(aggResults, StatusUnhealthy) = 1
    /\ aggOut.majority = StatusDegraded

\* The components of m with status st and importance imp, a component without
\* a weight entry being Important.
Components(m, w, st, imp) ==
    {n \in DOMAIN m :
        /\ m[n] = st
        /\ \/ n \in DOMAIN w /\ w[n] = imp
           \/ n \notin DOMAIN w /\ imp = Important}

\* C7 (SpecAgg): Weighted returns Unhealthy iff some Critical component is
\* Unhealthy; otherwise Degraded iff some Important component (or one without
\* a weight entry) is Unhealthy or any component is Degraded; otherwise
\* Healthy.
C7_Weighted ==
    aggOut # NoAggOut =>
        aggOut.weighted =
            IF Components(aggResults, aggWeights, StatusUnhealthy, Critical) # {}
            THEN StatusUnhealthy
            ELSE IF \/ Components(aggResults, aggWeights, StatusUnhealthy, Important) # {}
                    \/ NumWithStatus(aggResults, StatusDegraded) > 0
            THEN StatusDegraded
            ELSE StatusHealthy

\* C7's case: an Unhealthy Optional component beside a Healthy one has been
\* aggregated to Healthy.
C7_Witness ==
    /\ aggOut # NoAggOut
    /\ Components(aggResults, aggWeights, StatusUnhealthy, Optional) # {}
    /\ NumWithStatus(aggResults, StatusHealthy) > 0
    /\ aggOut.weighted = StatusHealthy

\* C8 (SpecStatus): under every strategy GetOverallStatus on a Manager with no
\* registered checker is Healthy: the strategy returns Healthy for the empty
\* result map.
C8_EmptyIsHealthy ==
    \A c \in Callers :
        (pc[c] = "done" /\ kind[c] = "GetOverallStatus" /\ snap[c] = EmptyMap)
            => out[c].status = StatusHealthy

\* C8's case: a Manager with a weighted strategy and no checker has answered
\* GetOverallStatus.
C8_Witness ==
    \E c \in Callers :
        /\ pc[c] = "done"
        /\ kind[c] = "GetOverallStatus"
        /\ snap[c] = EmptyMap
        /\ strategy.kind = "Weighted"
        /\ DOMAIN strategy.weights = Names

\* C9 (SpecHttp): a new Manager is ready; a SetReady step leaves the flag at
\* its argument and changes neither the checker map nor the cache; no other
\* step changes the flag.
C9_ReadinessOrthogonal ==
    /\ ready = TRUE
    /\ [][/\ op'.name = "SetReady" =>
                (ready' = op'.arg /\ checkers' = checkers /\ cache' = cache)
          /\ op'.name # "SetReady" => ready' = ready]_vars

\* C9's case: the flag has been cleared by SetReady(false) while a check is
\* running and the cache holds an Unhealthy result.
C9_Witness ==
    /\ op.name = "SetReady"
    /\ op.arg = FALSE
    /\ ~ready
    /\ \E n \in DOMAIN cache : cache[n].status = StatusUnhealthy
    /\ \E c \in Callers : pc[c] = "running"

\* C10 (SpecHttp): in every readiness handler the `ready` field is true
\* exactly when IsReady() was true and the overall status is Healthy, and the
\* HTTP status is 200 exactly when `ready` is true and 503 otherwise.
C10_ReadinessEndpoint ==
    \A c \in Callers :
        (pc[c] = "done" /\ kind[c] \in ReadinessKinds) =>
            /\ out[c].ready = (isReady[c] /\ out[c].status = StatusHealthy)
            /\ out[c].code = (IF out[c].ready THEN 200 ELSE 503)

\* C11 (SpecHttp): a readiness handler reads the flag SetReady last wrote, and
\* whenever that flag is false it answers 503 with ready=false whatever the
\* check results are (all Healthy and no checker included); with the flag true
\* and an overall status of Unhealthy it answers 503 with ready=false as well.
C11_ReadinessIndependence ==
    /\ [](\A c \in Callers :
            (pc[c] = "done" /\ kind[c] \in ReadinessKinds
                /\ (~isReady[c] \/ out[c].status = StatusUnhealthy))
            => (out[c].code = 503 /\ out[c].ready = FALSE))
    /\ [][\A c \in Callers :
            (pc[c] = "idle" /\ pc'[c] = "running" /\ kind'[c] \in ReadinessKinds)
            => isReady'[c] = ready]_vars

\* Not ready, both checkers registered and Healthy: the probe is refused.
C11_Witness ==
    \E c \in Callers :
        /\ pc[c] = "done"
        /\ kind[c] = "ObservabilityService.handleReadiness"
        /\ ready = FALSE
        /\ isReady[c] = FALSE
        /\ DOMAIN results[c] = Names
        /\ \A n \in Names : results[c][n] = StatusHealthy
        /\ out[c].code = 503
        /\ out[c].ready = FALSE

\* C12 (SpecDetail): every detail handler answers 200 when the overall status
\* is Healthy or Degraded and 503 when it is Unhealthy.
C12_DetailStatusCode ==
    \A c \in Callers :
        (pc[c] = "done" /\ kind[c] \in DetailKinds)
        => /\ out[c].status \in {StatusHealthy, StatusDegraded} => out[c].code = 200
           /\ out[c].status = StatusUnhealthy => out[c].code = 503

\* The log up to the point where Check returned.
CcBeforeReturn ==
    LET i == CHOOSE k \in 1..Len(ccLog) : ccLog[k].ev = "return"
    IN SubSeq(ccLog, 1, i - 1)

\* The events of log l that can end the select: a result arriving in the
\* channel, the timeout expiring, the parent being cancelled.
CcDecisive(l) == SelectSeq(l, LAMBDA e : e.ev \in {"send", "deadline", "cancel"})

\* What the check function did according to log l: the result it returned,
\* or the panic result if it panicked.
CcFnOutcome(l) ==
    LET f == SelectSeq(l, LAMBDA e : e.ev \in {"result", "panic"})
    IN IF f[1].ev = "panic" THEN PanicResult ELSE f[1].r

\* The result the claim attaches to event e of log l.
CcResultOf(l, e) ==
    CASE e.ev = "send" -> CcFnOutcome(l)
      [] e.ev = "deadline" -> TimeoutResult
      [] e.ev = "cancel" -> CancelledResult

C14_ManagerContainment ==
    [][\A n \in Names :
          (op'.name = "panic" /\ op'.arg = n)
          => /\ proc' = "running"
             /\ \E c \in Callers :
                   /\ n \in DOMAIN tpc'[c]
                   /\ tpc'[c][n] \in {"store", "done"}
                   /\ \/ n \in DOMAIN tres'[c] /\ tres'[c][n].status = StatusUnhealthy
                      \/ n \in DOMAIN results'[c] /\ results'[c][n] = StatusUnhealthy]_vars

\* C15 (SpecApp): a Run that returns nil while the shared context is not
\* cancelled leaves the context uncancelled, invokes no Shutdown and leaves
\* every other task where it was; and a Shutdown is invoked only once the
\* context is cancelled.
C15_NormalCompletionDoesNotCascade ==
    /\ [][\A sv \in AppServices :
            (op'.name = "RunReturn" /\ op'.arg = <<sv, "nil">> /\ ~ctxDone)
            => /\ ~ctxDone'
               /\ waiter' = waiter
               /\ \A o \in DOMAIN runner \ {sv} : runner'[o] = runner[o]
               /\ proc' = "running"]_vars
    /\ [](\A sv \in DOMAIN waiter : waiter[sv] # "waiting" => ctxDone)

\* One service has completed, the other is still in Run and no Shutdown has
\* been called.
C15_Witness ==
    /\ proc = "running"
    /\ DOMAIN runner = Runners
    /\ runner["s1"] = "nil"
    /\ runner["s2"] = "running"
    /\ ~ctxDone
    /\ \A sv \in DOMAIN waiter : waiter[sv] = "waiting"

\* C16 (SpecApp): with stop-all-on-error set, once a service's Run has
\* panicked and the panic has been recovered, the shared context is cancelled
\* and every service's Shutdown gets invoked: the process does not end with a
\* shutdown-waiter that never called Shutdown.
C16_PanicCascade ==
    (stopAllOnErr /\ \E sv \in DOMAIN runner : runner[sv] = "panic")
    => /\ ctxDone
       /\ proc # "running" => \A sv \in DOMAIN waiter : waiter[sv] # "waiting"

\* C17 (SpecApp): with stop-all-on-error disabled, a panic in a registered
\* service's Run does not cancel the shared context.
C17_DisabledPanicDoesNotCancel ==
    [][\A sv \in Runners :
          (op'.name = "RunPanic" /\ op'.arg = sv /\ ~stopAllOnErr /\ ~ctxDone)
          => ~ctxDone']_vars

\* C18 (SpecWatchdog): once the shared context is cancelled the process does
\* not run on for longer than the configured shutdown timeout plus the
\* margin, and the watchdog does not end the process before the configured
\* shutdown timeout has passed.
C18_WatchdogBound ==
    /\ (proc = "running" /\ ctxDone) => sinceCancel <= shutdownTimeout + WatchdogMargin
    /\ proc = "watchdog" => sinceCancel >= shutdownTimeout

\* C19 (SpecWatchdog): when Start exits after g.Wait(), every runner task and
\* every shutdown-waiter task has returned and the exit code is 0 exactly if
\* all of them returned nil; a watchdog exit has a non-zero code.
C19_ExitCode ==
    /\ proc = "exited" =>
          /\ \A sv \in DOMAIN runner : runner[sv] \in {"nil", "err", "panic"}
          /\ \A sv \in DOMAIN waiter : waiter[sv] \in {"nil", "err"}
          /\ exitCode = 0 <=>
                /\ \A sv \in DOMAIN runner : runner[sv] = "nil"
                /\ \A sv \in DOMAIN waiter : waiter[sv] = "nil"
    /\ proc = "watchdog" => exitCode \notin {0, NoExitCode}

\* Start has exited with a non-zero code after a recovered panic, everything
\* else having returned nil.
C19_Witness ==
    /\ proc = "exited"
    /\ exitCode = 1
    /\ runner["s1"] = "panic"
    /\ runner["s2"] = "nil"
    /\ \A sv \in DOMAIN waiter : waiter[sv] = "nil"

\* C20 (SpecApp): a panic in a service's Run or Shutdown, the observability
\* service's included, is recovered in its task, which returns an error to the
\* errgroup; the process keeps running.
C20_PanicContained ==
    [][\A sv \in AppServices :
          /\ (op'.name = "RunPanic" /\ op'.arg = sv)
             => (proc' = "running" /\ runner'[sv] = "panic" /\ groupErr')
          /\ (op'.name = "ShutdownPanic" /\ op'.arg = sv)
             => (proc' = "running" /\ waiter'[sv] \in {"err", "panic"} /\ groupErr')]_vars

\* C21 (SpecApp): when the shared context is cancelled and a registered
\* service's Run returns the context's own error, its runner task returns nil
\* and the errgroup records no error; a non-nil error Run returns while the
\* context is not cancelled reaches the errgroup as an error; and when every
\* task has returned nil, Start exits with code 0.
C21_GracefulCancellation ==
    [][\A sv \in Runners :
          /\ (op'.name = "RunReturn" /\ op'.arg = <<sv, "ctxErr">> /\ ctxDone)
             => /\ runner'[sv] = "nil"
                /\ groupErr' = groupErr
                /\ groupFirst' = groupFirst
          /\ \A e \in {"ctxErr", "err"} :
                (op'.name = "RunReturn" /\ op'.arg = <<sv, e>> /\ ~ctxDone)
                => /\ runner'[sv] = "err"
                   /\ groupErr'
                   /\ groupFirst' # NoError
          /\ (/\ op'.name = "WaitReturns"
              /\ \A o \in DOMAIN runner : runner[o] = "nil"
              /\ \A o \in DOMAIN waiter : waiter[o] = "nil")
             => exitCode' = ExitCodeOk]_vars

\* A service's Run has just returned the context's error after the context
\* was cancelled; its task returned nil and the errgroup holds no error.
C21_Witness ==
    /\ op.name = "RunReturn"
    /\ op.arg \in Runners \X {"ctxErr"}
    /\ ctxDone
    /\ runner[op.arg[1]] = "nil"
    /\ ~groupErr
    /\ proc = "running"

\* C22 (SpecRegistry): a RegisterChecker call, alone or as an iteration of
\* RegisterCheckers, leaves the name mapped to the checker it was given,
\* whatever the name was mapped to, and every other name as it was;
\* UnregisterChecker removes the name only; no other step touches the checker
\* map; registering goes through whenever the lock is free; and
\* GetCheckerNames returns each key of the map once and nothing else.
C22_LastWriterWins ==
    /\ [][/\ \A n \in Names, k \in RegistryIds :
              (op'.name \in {"RegisterChecker", "RegisterNext"} /\ op'.arg = <<n, k>>)
              => /\ DOMAIN checkers' = DOMAIN checkers \cup {n}
                 /\ checkers'[n] = k
                 /\ \A o \in DOMAIN checkers \ {n} : checkers'[o] = checkers[o]
          /\ \A n \in Names :
              (op'.name = "UnregisterChecker" /\ op'.arg = n)
              => /\ DOMAIN checkers' = DOMAIN checkers \ {n}
                 /\ \A o \in DOMAIN checkers' : checkers'[o] = checkers[o]
          /\ op'.name \notin {"RegisterChecker", "RegisterNext", "UnregisterChecker"}
             => checkers' = checkers
          /\ op'.name = "GetCheckerNames"
             => /\ {checkerNames'[i] : i \in 1..Len(checkerNames')} = DOMAIN checkers
                /\ Len(checkerNames') = Cardinality(DOMAIN checkers)]_vars
    /\ [](CanLock(mu) => \A n \in Names, k \in RegistryIds : ENABLED RegisterChecker(n, k))

\* RegisterCheckers has just registered a second checker under a name its
\* list had registered before, and the map holds the second.
C22_Witness ==
    /\ op.name = "RegisterNext"
    /\ op.arg = <<"db", MaxRegistryId>>
    /\ pending = << >>
    /\ "db" \in DOMAIN checkers
    /\ checkers["db"] = MaxRegistryId

\* C23 (SpecRegistry): UnregisterChecker(n) leaves neither a checker nor a
\* cached result under n and every other checker and cached result as it
\* was; and when n is not registered, it changes neither map.
C23_UnregisterRemovesOnlyName ==
    [][\A n \in Names :
          (op'.name = "UnregisterChecker" /\ op'.arg = n)
          => /\ n \notin DOMAIN checkers'
             /\ n \notin DOMAIN cache'
             /\ \A o \in DOMAIN checkers \ {n} :
                   o \in DOMAIN checkers' /\ checkers'[o] = checkers[o]
             /\ \A o \in DOMAIN cache \ {n} :
                   o \in DOMAIN cache' /\ cache'[o] = cache[o]
             /\ n \notin DOMAIN checkers => (checkers' = checkers /\ cache' = cache)]_vars

\* C24 (SpecLocks): ClearCache leaves the cache empty and the checker map and
\* the readiness flag as they were; afterwards a goroutine of CheckAll answers
\* from the cache only for a name the cache holds, and the cache comes to hold
\* a name only when a goroutine stores what the checker's Check returned to
\* it: with no CheckAll in flight at the ClearCache, the next CheckAll calls
\* every checker it copied, whatever the TTL.
C24_ClearCacheForcesRecheck ==
    [][/\ op'.name = "ClearCache"
          => (cache' = EmptyMap /\ checkers' = checkers /\ ready' = ready)
       /\ \A c \in Callers, n \in Names :
             TaskMoves(c, n, "start", "done") => n \in DOMAIN cache
       /\ \A n \in Names :
             (n \in DOMAIN cache' /\ n \notin DOMAIN cache)
             => \E c \in Callers : TaskMoves(c, n, "store", "done")
       /\ \A c \in Callers, n \in Names :
             (/\ n \in DOMAIN tpc'[c]
              /\ tpc'[c][n] = "store"
              /\ ~(n \in DOMAIN tpc[c] /\ tpc[c][n] = "store"))
             => TaskMoves(c, n, "checking", "store")]_vars

\* ClearCache has just emptied the cache after a CheckAll that stored a
\* result for each of the two registered checkers.
C24_Witness ==
    /\ op.name = "ClearCache"
    /\ cache = EmptyMap
    /\ DOMAIN checkers = Names
    /\ pc[LockCaller] = "done"
    /\ DOMAIN results[LockCaller] = Names
    /\ ~ready

\* C29 (SpecLocks): while a goroutine of CheckAll is inside a checker's
\* Check, nobody holds Manager.mu or Manager.readyMu, and RegisterChecker,
\* UnregisterChecker, ClearCache, GetCheckerNames, IsReady and SetReady can
\* each be carried out at once.
C29_NoLockAcrossCheck ==
    (\E c \in Callers, n \in Names : n \in DOMAIN tpc[c] /\ tpc[c][n] = "checking")
    => /\ mu = {}
       /\ readyMu = {}
       /\ \A n \in Names, k \in CheckerIds : ENABLED RegisterChecker(n, k)
       /\ \A n \in Names : ENABLED UnregisterChecker(n)
       /\ ENABLED ClearCache
       /\ ENABLED GetCheckerNames
       /\ ENABLED IsReady(ReadyCaller)
       /\ \A b \in BOOLEAN : ENABLED SetReady(b)

\* While the goroutine for "db" is inside Check, the readiness flag has been
\* cleared, "db" has been unregistered and GetCheckerNames has returned the
\* one name left.
C29_Witness ==
    /\ "db" \in DOMAIN tpc[LockCaller]
    /\ tpc[LockCaller]["db"] = "checking"
    /\ "db" \notin DOMAIN checkers
    /\ checkerNames = <<"api">>
    /\ ~ready
    /\ op.name = "GetCheckerNames"

\* The names of the checkers the services of list l declare.
DeclaredNames(l) ==
    UNION {{HealthChecks(l[i])[j][1] : j \in 1..Len(HealthChecks(l[i]))} : i \in 1..Len(l)}

\* C25 (SpecAdd): Add puts the service at the end of the runner list and
\* leaves the services before it in place; once Add has returned, every
\* checker an added HealthProvider declares is in the Manager's map; a
\* service that is not a HealthProvider has nothing registered for it; and
\* neither Start nor anything that runs after it registers a checker.
C25_AddWiring ==
    /\ [][/\ \A sv \in Runners :
              (op'.name = "Add" /\ op'.arg = sv)
              => /\ runners' = Append(runners, sv)
                 /\ sv \notin HealthProviders => (pending' = << >> /\ checkers' = checkers)
          /\ op'.name # "RegisterNext" => checkers' = checkers
          /\ op'.name = "StartApp" => pending = << >>]_vars
    /\ [](pending = << >>
          => \A i \in 1..Len(runners) :
                \A j \in 1..Len(HealthChecks(runners[i])) :
                   /\ HealthChecks(runners[i])[j][1] \in DOMAIN checkers
                   /\ checkers[HealthChecks(runners[i])[j][1]] = HealthChecks(runners[i])[j][2])
    /\ [](DOMAIN checkers \subseteq DeclaredNames(runners))

\* "s2" then "s1" have been added, Add has returned and Start has not been
\* called: both of the checkers "s1" declares are registered.
C25_Witness ==
    /\ runners = <<"s2", "s1">>
    /\ pending = << >>
    /\ DOMAIN runner = {}
    /\ DOMAIN checkers = {"db", "api"}

\* C26 (SpecApp): no Shutdown is invoked while the shared context is not
\* cancelled; and once it is cancelled the process does not end before every
\* service's Shutdown and every service's Run have been invoked.
C26_ShutdownOrdering ==
    /\ \A sv \in DOMAIN waiter : waiter[sv] # "waiting" => ctxDone
    /\ (proc # "running" /\ ctxDone)
       => /\ \A sv \in DOMAIN waiter : waiter[sv] # "waiting"
          /\ \A sv \in DOMAIN runner : runner[sv] # "spawned"

\* C27 (SpecApp): a service's Shutdown is not invoked before that service's
\* Run has been invoked.
C27_RunBeforeShutdown ==
    \A sv \in DOMAIN waiter : waiter[sv] # "waiting" => runner[sv] # "spawned"

C30_ShutdownTimeoutEnforced ==
    /\ \A sv \in DOMAIN waiter : waiter[sv] = "shutdown" => sinceCancel <= shutdownTimeout
    /\ (proc = "watchdog" /\ shutdownTimeout < WatchdogTimeout)
       => \A sv \in DOMAIN waiter : waiter[sv] # "shutdown"

\* C31 (SpecCustom): a Check entered with a parent context that was already
\* cancelled returns an Unhealthy result, whatever the check function does.
C31_CancelledParentUnhealthy ==
    (/\ ccPc = "returned"
     /\ Len(ccLog) >= 2
     /\ ccLog[1].ev = "cancel"
     /\ ccLog[2].ev = "begin")
    => ccOut.status = StatusUnhealthy

\* C32 (SpecAgg): applied to the same result map, health.AllHealthyStrategy
\* and strategies.AllHealthyStrategy return the same status, and each returns
\* in every other iteration order of the map what it returned in this one.
C32_AllHealthyEquivalent ==
    aggOut # NoAggOut =>
        /\ aggOut.health = aggOut.strategies
        /\ \A s \in IterOrders(aggResults) :
              /\ HealthAllHealthyAggregate(Visit(aggResults, s)) = aggOut.health
              /\ StrategiesAllHealthyAggregate(Visit(aggResults, s)) = aggOut.strategies

\* C33 (SpecRegistry): whenever no CheckAll is in flight, every name the
\* cache holds a result for is the name of a registered checker.
C33_CacheWithinRegistry ==
    (\A c \in Callers : pc[c] # "running") => DOMAIN cache \subseteq DOMAIN checkers

\* C34 (SpecOverwrite): what CheckAll returns for a name is a result of the
\* checker that was registered under the name when CheckAll began, also when
\* that checker had replaced another one since the previous CheckAll.
C34_OverwriteVisible ==
    \A c \in Callers :
       pc[c] = "done"
       => \A n \in DOMAIN results[c] :
             results[c][n] = CheckerResult(snap[c][n]).status

\* C35 (SpecDetail): in the response of a detail handler the status is what
\* the Manager's strategy makes of the checks map of the same response.
C35_DetailStatusOfOwnChecks ==
    \A c \in Callers :
       (pc[c] = "done" /\ kind[c] \in DetailKinds)
       => \A s \in IterOrders(checks[c][1]) :
             out[c].status = Aggregate(strategy, Visit(checks[c][1], s))

\* C36 (SpecWatchdog): the context a service's Shutdown gets is a child of
\* the background context, not of the shared one: when Shutdown is invoked
\* the shared context is cancelled and that context is not, and it stays live
\* until the configured shutdown timeout has passed since that waiter made it.
C36_ShutdownCtxFresh ==
    /\ [][\A sv \in Runners :
             (op'.name = "ShutdownInvoke" /\ op'.arg = sv)
             => (ctxDone' /\ ShutdownCtxErr(sv)' = "live")]_vars
    /\ [](\A sv \in DOMAIN waiter :
             waiter[sv] = "shutdown"
             => /\ shutdownCtx[sv].parent # "shared"
                /\ ShutdownCtxErr(sv) = "live"
                      <=> sinceCancel - shutdownCtx[sv].at < shutdownTimeout)

\* A Shutdown has been running for a second under a cancelled shared
\* context, and the context it was given is still live.
C36_Witness ==
    /\ ctxDone
    /\ proc = "running"
    /\ waiter["s1"] = "shutdown"
    /\ sinceCancel = 1
    /\ ShutdownCtxErr("s1") = "live"

\* C37 (SpecWatchdog): Start exits the process, after g.Wait() or from the
\* watchdog, only when the shared context is cancelled; while it is not,
\* every shutdown-waiter is still waiting and neither g.Wait() can return nor
\* the watchdog fire, also when every service's Run has returned nil.
C37_NoExitWithoutCancellation ==
    /\ proc \in {"exited", "watchdog"} => ctxDone
    /\ (proc = "running" /\ ~ctxDone)
       => /\ \A sv \in DOMAIN waiter : waiter[sv] = "waiting"
          /\ ~ENABLED WaitReturns
          /\ ~ENABLED Watchdog

\* Every service's Run has returned nil, the context is not cancelled and
\* the process is running.
C37_Witness ==
    /\ proc = "running"
    /\ ~ctxDone
    /\ DOMAIN runner = Runners
    /\ \A sv \in Runners : runner[sv] = "nil"

\* C38 (SpecObs): once the observability service's Shutdown has returned,
\* its Run has returned or its server is closed, so that Run returns; and the
\* process does not end by the watchdog.
C38_ObsStopsWithoutWatchdog ==
    /\ (proc = "running" /\ waiter[ObservabilityService] \in {"nil", "err"})
       => \/ runner[ObservabilityService] \in TaskReturns
          \/ obsServer = "closed"
    /\ proc # "watchdog"

\* The positions of the events ev in the log.
CcEventsAt(ev) == {i \in 1..Len(ccLog) : ccLog[i].ev = ev}

\* C39 (SpecCustom): the worker sends at most once, and what it sends is the
\* function's result or, after a panic, the panic result, never both;
\* resultChan never holds more than one value; the send can be made
\* whenever the function has returned or panicked, also after Check has
\* returned; and with the send the worker is finished.
C39_WorkerDelivery ==
    /\ Cardinality(CcEventsAt("send")) <= 1
    /\ Cardinality(CcEventsAt("result") \cup CcEventsAt("panic")) <= 1
    /\ Len(ccChan) <= 1
    /\ ccWorker \in {"returned", "recovered"} => ENABLED CcWorkerSend
    /\ ccWorker = "sent" <=> CcEventsAt("send") # {}
    /\ \A i \in CcEventsAt("send") :
          \E j \in CcEventsAt("result") \cup CcEventsAt("panic") :
             j < i /\ ccLog[i].r = ccLog[j].r

\* Check has returned on its timeout, the function returned afterwards and
\* the worker has put its result into the channel and finished.
C39_Witness ==
    /\ ccPc = "returned"
    /\ ccOut = TimeoutResult
    /\ ccWorker = "sent"
    /\ Len(ccChan) = 1
    /\ ccLog[Len(ccLog)].ev = "send"

====
